---- MODULE Spec2Model ----
(***************************************************************************)
(* Model of the Odoo client of raycast-odoo: the JSON-RPC transport        *)
(* (OdooClient), the session manager (login, logout,                       *)
(* getAuthenticatedClient, hasActiveSession), and the attendance and       *)
(* timer operations that sit on top of them and on the key-value storage.  *)
(*                                                                         *)
(* Strings are TLA+ strings; JavaScript values whose type varies (results  *)
(* of RPC calls, optional fields) are tagged records [t |-> ..., v |-> ..] *)
(***************************************************************************)
EXTENDS Integers, Sequences, FiniteSets, TLC

(***************************************************************************)
(* Bounds of the model                                                     *)
(***************************************************************************)
\* calls made on the free-standing transport of SpecTransport
MaxRequests == 3
\* the clock stops advancing at MaxNow milliseconds
MaxNow == 30000

\* the clock stops here in the specifications where cache entries expire
MaxLateNow == 90000

(***************************************************************************)
(* JavaScript values                                                       *)
(***************************************************************************)
JUndef == [t |-> "undefined", v |-> 0]
JNull == [t |-> "null", v |-> 0]
JFalse == [t |-> "false", v |-> 0]
JTrue == [t |-> "true", v |-> 0]
JNum(n) == [t |-> "number", v |-> n]
JStr(s) == [t |-> "string", v |-> s]
JObj(r) == [t |-> "object", v |-> r]
JArr(s) == [t |-> "array", v |-> s]

\* !x
Falsy(x) ==
  \/ x.t \in {"undefined", "null", "false"}
  \/ x.t = "number" /\ x.v = 0
  \/ x.t = "string" /\ x.v = ""

\* x.f where x may be anything: a missing field reads as undefined
Field(x, f) ==
  IF x.t = "object" /\ f \in DOMAIN x.v THEN x.v[f] ELSE JUndef

(***************************************************************************)
(* String helpers (String.prototype)                                       *)
(***************************************************************************)
Char(s, i) == SubSeq(s, i, i)

StartsWith(s, p) == Len(s) >= Len(p) /\ SubSeq(s, 1, Len(p)) = p

EndsWith(s, p) == Len(s) >= Len(p) /\ SubSeq(s, Len(s) - Len(p) + 1, Len(s)) = p

Includes(s, p) == \E i \in 1..(Len(s) + 1) : StartsWith(SubSeq(s, i, Len(s)), p)

\* index of the first occurrence of the one-character string ch at or
\* after position i, or 0
RECURSIVE IndexFrom(_, _, _)
IndexFrom(s, ch, i) ==
  IF i > Len(s) THEN 0
  ELSE IF Char(s, i) = ch THEN i
  ELSE IndexFrom(s, ch, i + 1)

\* s.split(ch)[0]
BeforeFirst(s, ch) ==
  LET i == IndexFrom(s, ch, 1)
  IN  IF i = 0 THEN s ELSE SubSeq(s, 1, i - 1)

\* s.split(ch)[1]: the text between the first and the second ch
\* (undefined, here "", when s holds no ch)
SecondPiece(s, ch) ==
  LET i == IndexFrom(s, ch, 1)
  IN  IF i = 0 THEN "" ELSE BeforeFirst(SubSeq(s, i + 1, Len(s)), ch)

RECURSIVE TrimLeft(_)
TrimLeft(s) ==
  IF Len(s) > 0 /\ Char(s, 1) = " " THEN TrimLeft(SubSeq(s, 2, Len(s))) ELSE s

RECURSIVE TrimRight(_)
TrimRight(s) ==
  IF Len(s) > 0 /\ Char(s, Len(s)) = " "
  THEN TrimRight(SubSeq(s, 1, Len(s) - 1)) ELSE s

Trim(s) == TrimRight(TrimLeft(s))

RECURSIVE Join(_, _)
Join(seq, sep) ==
  IF seq = <<>> THEN ""
  ELSE IF Len(seq) = 1 THEN seq[1]
  ELSE seq[1] \o sep \o Join(Tail(seq), sep)

\* seq.find((x) => x.startsWith(prefix)): the first such element, as a
\* sequence of length 0 or 1
FindStartingWith(seq, prefix) ==
  LET Hit(x) == StartsWith(x, prefix)
      hits == SelectSeq(seq, Hit)
  IN  IF hits = <<>> THEN <<>> ELSE <<hits[1]>>

(***************************************************************************)
(* Errors                                                                  *)
(***************************************************************************)
OdooApiError(msg, code) == [kind |-> "OdooApiError", message |-> msg, code |-> code]

SessionExpiredError(msg) ==
  [kind |-> "SessionExpiredError", message |-> msg, code |-> JUndef]

PlainError(msg) == [kind |-> "Error", message |-> msg, code |-> JUndef]

DefaultExpiredMessage == "Session expired, please login again"

NoError == [kind |-> "none", message |-> "", code |-> JUndef]

Returned(v) == [ok |-> TRUE, value |-> v, err |-> NoError]

Raised(e) == [ok |-> FALSE, value |-> JUndef, err |-> e]

(***************************************************************************)
(* OdooClient                                                              *)
(***************************************************************************)
\* baseUrl.replace(/\/$/, "")
StripTrailingSlash(url) ==
  IF EndsWith(url, "/") THEN SubSeq(url, 1, Len(url) - 1) ELSE url

\* new OdooClient(baseUrl, sessionId, cookies); sessionId is JNull or JStr
NewOdooClient(baseUrl, sessionId, cookies) ==
  [baseUrl |-> StripTrailingSlash(baseUrl),
   sessionId |-> sessionId,
   cookies |-> IF Len(cookies) > 0 THEN cookies
               ELSE IF ~Falsy(sessionId) THEN <<"session_id=" \o sessionId.v>>
               ELSE <<>>,
   requestId |-> 1]

\* client.setSession(sessionId, cookies); sessionId is a string
SetSession(c, sessionId, cookies) ==
  [c EXCEPT !.sessionId = JStr(sessionId),
            !.cookies = IF Len(cookies) > 0 THEN cookies
                        ELSE <<"session_id=" \o sessionId>>]

GetCookieHeader(c) == IF Len(c.cookies) = 0 THEN "" ELSE Join(c.cookies, "; ")

\* the regular expression /,(?=[^;]+?=)/ matches the comma at position i:
\* some "=" follows, at least one character later, with no ";" in between
SplitsAt(h, i) ==
  /\ Char(h, i) = ","
  /\ \E j \in (i + 2)..Len(h) :
       /\ Char(h, j) = "="
       /\ \A k \in (i + 1)..(j - 1) : Char(h, k) # ";"

\* setCookieHeader.split(/,(?=[^;]+?=)/), scanning from position i with the
\* current piece starting at position from
RECURSIVE SplitCookieHeader(_, _, _)
SplitCookieHeader(h, from, i) ==
  IF i > Len(h) THEN <<SubSeq(h, from, Len(h))>>
  ELSE IF SplitsAt(h, i)
       THEN <<SubSeq(h, from, i - 1)>> \o SplitCookieHeader(h, i + 1, i + 1)
       ELSE SplitCookieHeader(h, from, i + 1)

\* the loop body of updateCookiesFromResponse over the remaining pieces
RECURSIVE MergeCookies(_, _)
MergeCookies(cookies, pieces) ==
  IF pieces = <<>> THEN cookies
  ELSE LET cookiePair == Trim(BeforeFirst(Head(pieces), ";"))
           name == BeforeFirst(cookiePair, "=")
           Other(c) == ~StartsWith(c, name \o "=")
       IN  IF name = "" THEN MergeCookies(cookies, Tail(pieces))
           ELSE MergeCookies(Append(SelectSeq(cookies, Other), cookiePair), Tail(pieces))

\* updateCookiesFromResponse: setCookie is JNull (no header) or JStr(header)
UpdateCookiesFromResponse(c, setCookie) ==
  IF Falsy(setCookie) THEN c
  ELSE [c EXCEPT !.cookies = MergeCookies(c.cookies, SplitCookieHeader(setCookie.v, 1, 1))]

(***************************************************************************)
(* What the network may answer to one POST.                                *)
(*   net    : FALSE when fetch itself rejects (DNS, timeout, ...)          *)
(*   status, statusText, setCookie : of the HTTP response                  *)
(*   json   : FALSE when response.json() rejects (malformed body)          *)
(*   error  : the body's error field, JUndef or JObj([code, message, data])*)
(*   result : the body's result field                                      *)
(***************************************************************************)
HttpResponse(status, statusText, setCookie, json, error, result) ==
  [net |-> TRUE, status |-> status, statusText |-> statusText,
   setCookie |-> setCookie, json |-> json, error |-> error, result |-> result]

NetworkFailure ==
  [net |-> FALSE, status |-> 0, statusText |-> "", setCookie |-> JNull,
   json |-> FALSE, error |-> JUndef, result |-> JUndef]

FetchFailedMessage == "fetch failed"

BadJsonMessage == "invalid json response body"

\* a status check that forgets the upper end of the 2xx range
ResponseOkNoUpperBound(resp) == resp.status >= 200

\* response.ok
ResponseOk(resp) == resp.status >= 200 /\ resp.status <= 299

\* a counter that moves only when the server answered
AfterRequestCountsAnswered(c, resp) ==
  IF resp.net
  THEN UpdateCookiesFromResponse([c EXCEPT !.requestId = c.requestId + 1], resp.setCookie)
  ELSE c

\* the state of the client after the call: the counter has moved on, and
\* the cookies of an answer are merged
AfterRequest(c, resp) ==
  LET sent == [c EXCEPT !.requestId = c.requestId + 1]
  IN  IF resp.net THEN UpdateCookiesFromResponse(sent, resp.setCookie) ELSE sent

\* a heuristic that takes a false result for an expired session everywhere
IndicatesExpiryAnyEndpoint(endpoint, result) == result.t = "false"

\* jsonResponse.result === false && endpoint.includes("/web/session")
IndicatesExpiry(endpoint, result) ==
  result.t = "false" /\ Includes(endpoint, "/web/session")

\* an error message that is always the top-level one
JsonRpcErrorMessageTopLevel(error) == Field(error, "message").v

\* jsonResponse.error.data?.message || jsonResponse.error.message
JsonRpcErrorMessage(error) ==
  LET nested == Field(Field(error, "data"), "message")
  IN  IF ~Falsy(nested) THEN nested.v ELSE Field(error, "message").v

\* the try block of client.request(endpoint, params) when the network
\* answers resp: what it returns or throws, before the catch block
RequestTry(endpoint, resp) ==
  IF ~resp.net
    THEN Raised(PlainError(FetchFailedMessage))
  ELSE IF ~ResponseOk(resp)
    THEN IF resp.status = 401 \/ resp.status = 403
         THEN Raised(SessionExpiredError(DefaultExpiredMessage))
         ELSE Raised(OdooApiError("HTTP " \o ToString(resp.status) \o ": " \o resp.statusText,
                                  JNum(resp.status)))
  ELSE IF ~resp.json
    THEN Raised(PlainError(BadJsonMessage))
  ELSE IF ~Falsy(resp.error)
    THEN Raised(OdooApiError(JsonRpcErrorMessage(resp.error), Field(resp.error, "code")))
  ELSE IF IndicatesExpiry(endpoint, resp.result)
    THEN Raised(SessionExpiredError(DefaultExpiredMessage))
  ELSE Returned(resp.result)

\* a catch block that wraps whatever it catches
RequestCatchRewraps(error) ==
  OdooApiError("Network error: " \o error.message, JUndef)

\* the catch block of client.request: the two typed errors pass, any other
\* Error is wrapped
RequestCatch(error) ==
  IF error.kind \in {"OdooApiError", "SessionExpiredError"} THEN error
  ELSE IF error.kind = "Error"
       THEN OdooApiError("Network error: " \o error.message, JUndef)
  ELSE OdooApiError("Unknown error occurred", JUndef)

\* the outcome of client.request(endpoint, params) when the network answers resp
RequestOutcome(endpoint, resp) ==
  LET out == RequestTry(endpoint, resp)
  IN  IF out.ok THEN out ELSE Raised(RequestCatch(out.err))

\* the envelope client.request POSTs: its id, the URL and the Cookie header
Envelope(c, endpoint) ==
  [id |-> c.requestId,
   url |-> c.baseUrl \o endpoint,
   cookie |-> IF ~Falsy(c.sessionId) \/ Len(c.cookies) > 0
              THEN GetCookieHeader(c) ELSE ""]

CallKwEndpoint == "/web/dataset/call_kw"

\* client.callKw(model, method, args, kwargs) is request() on one fixed path
CallKwOutcome(resp) == RequestOutcome(CallKwEndpoint, resp)

\* the envelope of a callKw, with the method its params name
CallKwEnvelope(c, method) == Envelope(c, CallKwEndpoint) @@ [method |-> method]

(***************************************************************************)
(* State                                                                   *)
(***************************************************************************)
VARIABLES
  storage,     \* the key-value storage provider: key -> stored item
  now,         \* Date.now(), in milliseconds
  call,        \* per caller: the operation in flight, its position and locals
  transport,   \* SpecTransport: one free-standing OdooClient instance
  envelopes,   \* SpecTransport: the ids of the envelopes that instance has sent, in order
  lastCall,    \* SpecTransport: endpoint, answer and outcome of its last call
  resolution,  \* SpecDatabase: a url, a listing answer and the database resolved
  cacheProbe,  \* SpecCache: the last cache read or write made directly
  timesheet    \* SpecClock: the TimesheetCommand component's timer display

vars == <<storage, now, call, transport, envelopes, lastCall, resolution, cacheProbe, timesheet>>

mainVars == <<storage, now, call>>

transportVars == <<transport, envelopes, lastCall>>

pureVars == <<resolution, cacheProbe, timesheet>>

(***************************************************************************)
(* A free-standing transport: any sequence of request(), callKw() and      *)
(* setSession() on one OdooClient, against any answers of the network.     *)
(***************************************************************************)
ServerErrorWithData ==
  JObj([code |-> JNum(200), message |-> JStr("Odoo Server Error"),
        data |-> JObj([message |-> JStr("Access Denied"), debug |-> JStr("Traceback")])])

ServerErrorPlain ==
  JObj([code |-> JNum(100), message |-> JStr("Odoo Session Invalid")])

\* an error whose data carries a traceback and no message
ServerErrorDebugOnly ==
  JObj([code |-> JNum(200), message |-> JStr("Odoo Server Error"),
        data |-> JObj([debug |-> JStr("Traceback")])])

RotatedCookieHeader == "session_id=r2; Path=/"

\* two Set-Cookie headers as fetch joins them, the first one ending with
\* its Expires attribute
ExpiresLastCookieHeader ==
  "session_id=r3; Expires=Sat, 31 Oct 2027 00:00:00 GMT, frontend_lang=en"

\* the cookies a Set-Cookie header may carry back
TransportCookieHeaders ==
  {JNull, JStr(RotatedCookieHeader), JStr(ExpiresLastCookieHeader)}

TransportStatuses == {200, 401, 403, 404, 500}

StatusText(status) ==
  CASE status = 200 -> "OK"
    [] status = 401 -> "Unauthorized"
    [] status = 403 -> "Forbidden"
    [] status = 404 -> "Not Found"
    [] OTHER -> "Internal Server Error"

\* bodies as [json, error, result]
TransportBodies ==
  { [json |-> FALSE, error |-> JUndef, result |-> JUndef],
    [json |-> TRUE, error |-> ServerErrorWithData, result |-> JUndef],
    [json |-> TRUE, error |-> ServerErrorPlain, result |-> JNum(7)],
    [json |-> TRUE, error |-> ServerErrorDebugOnly, result |-> JFalse],
    [json |-> TRUE, error |-> JUndef, result |-> JFalse],
    [json |-> TRUE, error |-> JUndef, result |-> JNull],
    [json |-> TRUE, error |-> JUndef, result |-> JNum(7)] }

\* every status with every body, and every status with every Set-Cookie
\* header
TransportResponses ==
  {NetworkFailure} \cup
  { HttpResponse(st, StatusText(st), JNull, b.json, b.error, b.result) :
      st \in TransportStatuses, b \in TransportBodies } \cup
  { HttpResponse(st, StatusText(st), ck, TRUE, JUndef, JNum(7)) :
      st \in TransportStatuses, ck \in TransportCookieHeaders }

TransportEndpoints == {"/web/session/get_session_info", "/web/database/list"}

TransportConstructions ==
  { NewOdooClient("https://acme.odoo.com/", JNull, <<>>),
    NewOdooClient("https://acme.odoo.com", JStr("s1"), <<>>),
    NewOdooClient("https://acme.odoo.com", JStr("s1"), <<"session_id=s1", "lang=en">>) }

NoCall == [endpoint |-> "", resp |-> NetworkFailure, outcome |-> Returned(JUndef), made |-> FALSE]

TransportDo(endpoint, resp) ==
  /\ transport.requestId <= MaxRequests
  /\ envelopes' = Append(envelopes, Envelope(transport, endpoint).id)
  /\ transport' = AfterRequest(transport, resp)
  /\ lastCall' = [endpoint |-> endpoint, resp |-> resp,
                  outcome |-> RequestOutcome(endpoint, resp), made |-> TRUE]
  /\ UNCHANGED <<mainVars, pureVars>>

TransportRequest == \E e \in TransportEndpoints, r \in TransportResponses : TransportDo(e, r)

TransportCallKw == \E r \in TransportResponses : TransportDo(CallKwEndpoint, r)

TransportSetSession ==
  /\ \E ck \in {<<>>, <<"session_id=s9">>} : transport' = SetSession(transport, "s9", ck)
  /\ UNCHANGED <<envelopes, lastCall>>
  /\ UNCHANGED <<mainVars, pureVars>>

(***************************************************************************)
(* Storage (StorageProvider) and the session record                        *)
(***************************************************************************)
SESSION == "odoo_session"
USER_INFO == "odoo_user_info"
ATTENDANCE_CACHE == "odoo_attendance_cache"
TIMER_CACHE == "odoo_timer_cache"

StorageKeys == {SESSION, USER_INFO, ATTENDANCE_CACHE, TIMER_CACHE}

\* getItem gives null for a key that holds nothing
NoItem == [present |-> FALSE, parses |-> FALSE, val |-> JUndef]

\* what JSON.parse(JSON.stringify(v)) gives for an object of JS values:
\* a field whose value is undefined is left out
JSONValue(v) ==
  IF v.t = "object"
  THEN LET kept == { f \in DOMAIN v.v : v.v[f].t # "undefined" }
       IN  JObj([f \in kept |-> v.v[f]])
  ELSE v

\* JSON.stringify(v): a stored text that JSON.parse turns back into v
JSONstringify(v) == [present |-> TRUE, parses |-> TRUE, val |-> v]

\* a lookup under the user-info key instead of the session key
GetSessionFromUserInfo(st) ==
  LET sessionStr == st[USER_INFO]
  IN  IF ~sessionStr.present THEN JNull
      ELSE IF sessionStr.parses THEN sessionStr.val
      ELSE JNull

\* getSession(): the stored SessionInfo, or null when the key is empty or
\* its text does not parse
GetSession(st) ==
  LET sessionStr == st[SESSION]
  IN  IF ~sessionStr.present THEN JNull
      ELSE IF sessionStr.parses THEN sessionStr.val
      ELSE JNull

\* saveSession(session)
SaveSession(st, session) == [st EXCEPT ![SESSION] = JSONstringify(session)]

RemoveItem(st, key) == [st EXCEPT ![key] = NoItem]

(***************************************************************************)
(* Callers and operations in flight                                        *)
(***************************************************************************)
Callers == {"c1", "c2"}

\* the sequential client of Spec: one caller, one operation at a time
SeqCallers == {"c1"}

Idle == [op |-> "idle", pc |-> "idle"]

\* caller p has nothing in flight; an operation called from within another
\* keeps its caller in the field outer and hands its result back to it
CanStart(p) == call[p].pc \in {"idle", "done"} /\ "outer" \notin DOMAIN call[p]

At(p, op, pc) == call[p].op = op /\ call[p].pc = pc

\* the operation of caller p moves to c
Becomes(p, c) ==
  /\ call' = [call EXCEPT ![p] = c]
  /\ UNCHANGED <<transportVars, pureVars>>

\* an operation that has returned or raised, with what it leaves to inspect
Finished(c, result) == [c EXCEPT !.pc = "done"] @@ [result |-> result]

(***************************************************************************)
(* hasActiveSession and getAuthenticatedClient                             *)
(***************************************************************************)
\* a client rebuilt from the stored token alone, the stored cookies dropped
GetAuthenticatedClientTokenOnly(st) ==
  LET session == GetSession(st)
  IN  IF Falsy(session)
      THEN [ok |-> FALSE, err |-> SessionExpiredError("No active session found"),
            client |-> NewOdooClient("", JNull, <<>>)]
      ELSE [ok |-> TRUE, err |-> NoError,
            client |-> NewOdooClient(session.v.baseUrl, JStr(session.v.sessionId), <<>>)]

\* what getAuthenticatedClient() gives for a stored session: the client, or
\* the error it throws
GetAuthenticatedClient(st) ==
  LET session == GetSession(st)
  IN  IF Falsy(session)
      THEN [ok |-> FALSE, err |-> SessionExpiredError("No active session found"),
            client |-> NewOdooClient("", JNull, <<>>)]
      ELSE [ok |-> TRUE, err |-> NoError,
            client |-> NewOdooClient(session.v.baseUrl, JStr(session.v.sessionId),
                                     session.v.cookies)]

HasActiveSession(p) ==
  /\ CanStart(p)
  /\ Becomes(p, [op |-> "hasActiveSession", pc |-> "done", calls |-> <<>>,
                 result |-> Returned(IF GetSession(storage).t # "null" THEN JTrue ELSE JFalse)])
  /\ UNCHANGED <<storage, now>>

GetAuthenticatedClientCall(p) ==
  /\ CanStart(p)
  /\ LET got == GetAuthenticatedClient(storage)
     IN  Becomes(p, [op |-> "getAuthenticatedClient", pc |-> "done", calls |-> <<>>,
                     client |-> got.client,
                     result |-> IF got.ok THEN Returned(JTrue) ELSE Raised(got.err)])
  /\ UNCHANGED <<storage, now>>

(***************************************************************************)
(* URLs                                                                    *)
(***************************************************************************)
\* OdooClient.normalizeUrl
NormalizeUrl(url) ==
  IF ~StartsWith(url, "http://") /\ ~StartsWith(url, "https://")
  THEN "https://" \o url
  ELSE url

\* new URL(url), for a url that starts with http:// or https:// : the host
\* is the text up to the first "/" after the scheme; it must be non-empty
\* and hold no blank
ParseUrl(url) ==
  LET protocol == IF StartsWith(url, "https://") THEN "https:"
                  ELSE IF StartsWith(url, "http://") THEN "http:"
                  ELSE ""
      rest == SubSeq(url, Len(protocol) + 3, Len(url))
      hostname == BeforeFirst(rest, "/")
  IN  [ok |-> protocol # "" /\ hostname # "" /\ IndexFrom(hostname, " ", 1) = 0,
       protocol |-> protocol, hostname |-> hostname]

\* OdooClient.isValidUrl
IsValidUrl(url) ==
  LET parsed == ParseUrl(url)
  IN  parsed.ok /\ (parsed.protocol = "http:" \/ parsed.protocol = "https:")

(***************************************************************************)
(* Database resolution                                                     *)
(***************************************************************************)
\* hostname.replace(/\.(dev\.)?odoo\.com$/, ""): the leftmost match wins
RemoveOdooSuffix(hostname) ==
  IF EndsWith(hostname, ".dev.odoo.com")
  THEN SubSeq(hostname, 1, Len(hostname) - Len(".dev.odoo.com"))
  ELSE IF EndsWith(hostname, ".odoo.com")
  THEN SubSeq(hostname, 1, Len(hostname) - Len(".odoo.com"))
  ELSE hostname

\* fetchDatabaseList: the listing, [] when the call fails or gives nothing
FetchDatabaseList(resp) ==
  LET out == RequestOutcome("/web/database/list", resp)
  IN  IF out.ok /\ ~Falsy(out.value) THEN out.value.v ELSE <<>>

\* a resolution that takes the first listed database whenever several are
\* listed
ExtractDatabaseNameFirstListed(url, resp) ==
  LET hostname == ParseUrl(url).hostname
      databases == FetchDatabaseList(resp)
  IN  IF ~ParseUrl(url).ok THEN ""
      ELSE IF EndsWith(hostname, ".odoo.com")
      THEN IF Len(databases) >= 1 THEN databases[1] ELSE RemoveOdooSuffix(hostname)
      ELSE IF Len(databases) = 1 THEN databases[1]
      ELSE ""

\* extractDatabaseName, for the url login has validated and the answer of
\* the listing endpoint
ExtractDatabaseName(url, resp) ==
  LET hostname == ParseUrl(url).hostname
      databases == FetchDatabaseList(resp)
  IN  IF ~ParseUrl(url).ok THEN ""
      ELSE IF EndsWith(hostname, ".odoo.com")
      THEN LET subdomain == RemoveOdooSuffix(hostname)
               match == FindStartingWith(databases, subdomain)
           IN  IF Len(databases) = 1 THEN databases[1]
               ELSE IF Len(databases) > 1
               THEN IF match # <<>> /\ match[1] # "" THEN match[1] ELSE databases[1]
               ELSE subdomain
      ELSE IF Len(databases) = 1 THEN databases[1]
      ELSE ""

(***************************************************************************)
(* Answers of the server in the main specification                         *)
(***************************************************************************)
Ok200(setCookie, result) == HttpResponse(200, "OK", setCookie, TRUE, JUndef, result)

\* the ways one call can fail: no network, HTTP 401, an error body
FailureResponses ==
  { NetworkFailure,
    HttpResponse(401, "Unauthorized", JNull, TRUE, JUndef, JNull),
    HttpResponse(200, "OK", JNull, TRUE, ServerErrorWithData, JUndef) }

LoginCookieHeader == "session_id=c1; Path=/; HttpOnly"

LoginUrls == {"acme.odoo.com", "http://erp.example.com/", "not a url"}

LoginUsernames == {"ann"}

DatabaseListResponses ==
  { NetworkFailure, Ok200(JNull, JArr(<<"main">>)), Ok200(JNull, JArr(<<"prod", "acme-test">>)) }

AuthenticateResults ==
  { JFalse, JNull,
    JObj([uid |-> JFalse]),
    JObj([uid |-> JNum(7), company_id |-> JNum(1)]),
    JObj([uid |-> JNum(7), company_id |-> JNum(1), session_id |-> JStr("s1"),
          name |-> JStr("Ann"), username |-> JStr("ann@acme")]) }

AuthenticateResponses ==
  FailureResponses \cup
  { Ok200(ck, r) : ck \in {JNull, JStr(LoginCookieHeader)}, r \in AuthenticateResults }

EmployeeRecord == JObj([id |-> JNum(5), name |-> JStr("Ann E")])

EmployeeResponses ==
  FailureResponses \cup
  { Ok200(JNull, JArr(<<>>)), Ok200(JNull, JFalse),
    Ok200(JStr(RotatedCookieHeader), JArr(<<EmployeeRecord>>)) }

(***************************************************************************)
(* login(baseUrl, username, password)                                      *)
(***************************************************************************)
\* a || b on strings held as JS values
OrElse(x, fallback) == IF Falsy(x) THEN fallback ELSE x.v

\* the session id login settles on: the one of the response body, else the
\* value of the first session_id= cookie, else none
ExtractSessionId(response, capturedCookies) ==
  LET fromBody == Field(response, "session_id")
      sessionCookie == FindStartingWith(capturedCookies, "session_id=")
  IN  IF Falsy(fromBody) /\ Len(capturedCookies) > 0 /\ sessionCookie # <<>>
      THEN JStr(SecondPiece(sessionCookie[1], "="))
      ELSE fromBody

\* a catch block that passes the message on as it is
LoginFailedBare(message) == PlainError(message)

\* the catch block of login: whatever was thrown is wrapped
LoginFailed(message) == PlainError("Login failed: " \o message)

\* an employee lookup that fills in the id and forgets the name
WithEmployeeIdOnly(sessionInfo, out) ==
  LET employeeData == out.value
  IN  IF out.ok /\ ~Falsy(employeeData) /\ employeeData.t = "array" /\ Len(employeeData.v) > 0
      THEN [sessionInfo EXCEPT !.employeeId = Field(employeeData.v[1], "id")]
      ELSE sessionInfo

\* the SessionInfo after the employee lookup gave out: the first record's id
\* and name when there is one, else unchanged
WithEmployee(sessionInfo, out) ==
  LET employeeData == out.value
  IN  IF out.ok /\ ~Falsy(employeeData) /\ employeeData.t = "array" /\ Len(employeeData.v) > 0
      THEN [sessionInfo EXCEPT !.employeeId = Field(employeeData.v[1], "id"),
                               !.employeeName = Field(employeeData.v[1], "name").v]
      ELSE sessionInfo

\* a login that forgets the stored session before it tries
LoginStartClears(p) ==
  /\ CanStart(p)
  /\ \E baseUrl \in LoginUrls, username \in LoginUsernames :
       LET normalizedUrl == NormalizeUrl(baseUrl)
           c == [op |-> "login", pc |-> "dblist", calls |-> <<>>, baseUrl |-> baseUrl]
       IN  IF ~IsValidUrl(normalizedUrl)
           THEN Becomes(p, Finished(c, Raised(PlainError("Invalid Odoo URL format"))))
           ELSE Becomes(p, c @@ [normalizedUrl |-> normalizedUrl, username |-> username])
  /\ storage' = RemoveItem(storage, SESSION)
  /\ UNCHANGED now

\* the synchronous head of login: normalise and validate the URL
LoginStart(p) ==
  /\ CanStart(p)
  /\ \E baseUrl \in LoginUrls, username \in LoginUsernames :
       LET normalizedUrl == NormalizeUrl(baseUrl)
           c == [op |-> "login", pc |-> "dblist", calls |-> <<>>, baseUrl |-> baseUrl]
       IN  IF ~IsValidUrl(normalizedUrl)
           THEN Becomes(p, Finished(c, Raised(PlainError("Invalid Odoo URL format"))))
           ELSE Becomes(p, c @@ [normalizedUrl |-> normalizedUrl, username |-> username])
  /\ UNCHANGED <<storage, now>>

\* extractDatabaseName: the listing call on a client of its own, then the
\* client login authenticates with
LoginDatabaseList(p) ==
  /\ At(p, "login", "dblist")
  /\ \E resp \in DatabaseListResponses :
       LET c == call[p]
           lister == NewOdooClient(c.normalizedUrl, JNull, <<>>)
       IN  Becomes(p, [c EXCEPT !.pc = "authenticate",
                                !.calls = Append(@, Envelope(lister, "/web/database/list"))]
                      @@ [dbName |-> ExtractDatabaseName(c.normalizedUrl, resp),
                          client |-> NewOdooClient(c.normalizedUrl, JNull, <<>>)])
  /\ UNCHANGED <<storage, now>>

\* the authenticate call and what follows it up to the employee lookup
LoginAuthenticate(p) ==
  /\ At(p, "login", "authenticate")
  /\ \E resp \in AuthenticateResponses :
       LET c == call[p]
           out == RequestOutcome("/web/session/authenticate", resp)
           client == AfterRequest(c.client, resp)
           envelope == Envelope(c.client, "/web/session/authenticate")
                         @@ [params |-> [db |-> c.dbName, login |-> c.username]]
           failed == [op |-> "login", pc |-> "authenticate", baseUrl |-> c.baseUrl,
                      calls |-> Append(c.calls, envelope), authResp |-> resp]
           response == out.value
           capturedCookies == client.cookies
           sessionId == ExtractSessionId(response, capturedCookies)
           sessionInfo ==
             [sessionId |-> OrElse(sessionId, ""),
              baseUrl |-> c.normalizedUrl,
              userId |-> Field(response, "uid"),
              companyId |-> Field(response, "company_id"),
              employeeId |-> JNum(0),
              employeeName |-> OrElse(Field(response, "name"), c.username),
              username |-> OrElse(Field(response, "username"), c.username),
              cookies |-> capturedCookies]
       IN  IF ~out.ok
           THEN Becomes(p, Finished(failed, Raised(LoginFailed(out.err.message))))
           ELSE IF Falsy(response) \/ Falsy(Field(response, "uid"))
           THEN Becomes(p, Finished(failed, Raised(LoginFailed("Invalid username or password"))))
           ELSE Becomes(p, [op |-> "login", pc |-> "employee", baseUrl |-> c.baseUrl,
                            calls |-> Append(c.calls, envelope),
                            client |-> SetSession(client, OrElse(sessionId, ""), capturedCookies),
                            sessionInfo |-> sessionInfo])
  /\ UNCHANGED <<storage, now>>

\* the employee lookup: its failure, or an empty answer, changes nothing
LoginEmployee(p) ==
  /\ At(p, "login", "employee")
  /\ \E resp \in EmployeeResponses :
       LET c == call[p]
       IN  Becomes(p, [op |-> "login", pc |-> "save", baseUrl |-> c.baseUrl,
                       calls |-> Append(c.calls, Envelope(c.client, CallKwEndpoint)),
                       employeeResp |-> resp,
                       sessionInfo |-> WithEmployee(c.sessionInfo, CallKwOutcome(resp))])
  /\ UNCHANGED <<storage, now>>

\* a login that returns the SessionInfo without saving it
LoginReturnUnsaved(p) ==
  /\ At(p, "login", "save")
  /\ Becomes(p, Finished([op |-> "login", pc |-> "save", baseUrl |-> call[p].baseUrl,
                           calls |-> call[p].calls, employeeResp |-> call[p].employeeResp],
                          Returned(JObj(call[p].sessionInfo))))
  /\ UNCHANGED <<storage, now>>

\* saveSession, then return the SessionInfo
LoginSave(p) ==
  /\ At(p, "login", "save")
  /\ storage' = SaveSession(storage, JObj(call[p].sessionInfo))
  /\ Becomes(p, Finished([op |-> "login", pc |-> "save", baseUrl |-> call[p].baseUrl,
                           calls |-> call[p].calls, employeeResp |-> call[p].employeeResp],
                          Returned(JObj(call[p].sessionInfo))))
  /\ UNCHANGED now

(***************************************************************************)
(* logout()                                                                *)
(***************************************************************************)
DestroyResponses ==
  FailureResponses \cup { Ok200(JNull, JNull), Ok200(JNull, JFalse) }

\* read the stored session; with one, the destroy call comes next
LogoutStart(p) ==
  /\ CanStart(p)
  /\ LET session == GetSession(storage)
         c == [op |-> "logout", pc |-> "destroy", calls |-> <<>>,
               hadSession |-> ~Falsy(session),
               hadKeys |-> {k \in StorageKeys : storage[k].present}]
     IN  IF ~Falsy(session)
         THEN Becomes(p, c @@ [client |-> NewOdooClient(session.v.baseUrl,
                                                        JStr(session.v.sessionId),
                                                        session.v.cookies)])
         ELSE Becomes(p, [c EXCEPT !.pc = "removeSession"])
  /\ UNCHANGED <<storage, now>>

\* a destroy call whose failure ends logout with that error
LogoutDestroyRethrows(p) ==
  /\ At(p, "logout", "destroy")
  /\ \E resp \in DestroyResponses :
       LET c == call[p]
           out == RequestOutcome("/web/session/destroy", resp)
           sent == [c EXCEPT !.calls = Append(@, Envelope(c.client, "/web/session/destroy")),
                             !.client = AfterRequest(c.client, resp)]
                   @@ [destroyOutcome |-> out]
       IN  IF out.ok
           THEN Becomes(p, [sent EXCEPT !.pc = "removeSession"])
           ELSE Becomes(p, Finished(sent, Raised(out.err)))
  /\ UNCHANGED <<storage, now>>

\* the destroy call; whatever it raises is logged and dropped
LogoutDestroy(p) ==
  /\ At(p, "logout", "destroy")
  /\ \E resp \in DestroyResponses :
       LET c == call[p]
       IN  Becomes(p, [c EXCEPT !.pc = "removeSession",
                                !.calls = Append(@, Envelope(c.client, "/web/session/destroy")),
                                !.client = AfterRequest(c.client, resp)]
                      @@ [destroyOutcome |-> RequestOutcome("/web/session/destroy", resp)])
  /\ UNCHANGED <<storage, now>>

\* clearSession: four removals, each awaited
LogoutRemove(p, pc, key, next) ==
  /\ At(p, "logout", pc)
  /\ storage' = RemoveItem(storage, key)
  /\ IF next = "done"
     THEN Becomes(p, Finished(call[p], Returned(JUndef)))
     ELSE Becomes(p, [call[p] EXCEPT !.pc = next])
  /\ UNCHANGED now

LogoutRemoveSession(p) == LogoutRemove(p, "removeSession", SESSION, "removeUserInfo")

LogoutRemoveUserInfo(p) == LogoutRemove(p, "removeUserInfo", USER_INFO, "removeAttendance")

LogoutRemoveAttendance(p) == LogoutRemove(p, "removeAttendance", ATTENDANCE_CACHE, "removeTimer")

LogoutRemoveTimer(p) == LogoutRemove(p, "removeTimer", TIMER_CACHE, "done")

(***************************************************************************)
(* The TTL caches of attendance and timer state                            *)
(***************************************************************************)
ATTENDANCE_CACHE_TTL == 60 * 1000

TIMER_CACHE_TTL == 30 * 1000

\* cacheAttendanceState / cacheTimerState: {data, timestamp: Date.now()}
WriteCache(st, key, state, t) ==
  [st EXCEPT ![key] =
     JSONstringify(JSONValue(JObj([data |-> JSONValue(state), timestamp |-> JNum(t)])))]

\* a read that still accepts an entry of exactly ttl milliseconds
ReadCacheInclusive(st, key, ttl, t) ==
  LET raw == st[key]
  IN  IF ~raw.present THEN JNull
      ELSE IF ~raw.parses THEN JNull
      ELSE LET timestamp == Field(raw.val, "timestamp")
           IN  IF timestamp.t = "number" /\ t - timestamp.v <= ttl
               THEN Field(raw.val, "data")
               ELSE JNull

\* getCachedAttendanceState / getCachedTimerState: the payload of an entry
\* that parses and is younger than ttl, else null
ReadCache(st, key, ttl, t) ==
  LET raw == st[key]
  IN  IF ~raw.present THEN JNull
      ELSE IF ~raw.parses THEN JNull
      ELSE LET timestamp == Field(raw.val, "timestamp")
           IN  IF timestamp.t = "number" /\ t - timestamp.v < ttl
               THEN Field(raw.val, "data")
               ELSE JNull

GetCachedAttendanceState(st, t) == ReadCache(st, ATTENDANCE_CACHE, ATTENDANCE_CACHE_TTL, t)

GetCachedTimerState(st, t) == ReadCache(st, TIMER_CACHE, TIMER_CACHE_TTL, t)

(***************************************************************************)
(* getAttendanceStatus(useCache)                                           *)
(***************************************************************************)
CheckedIn ==
  JObj([attendance_state |-> JStr("checked_in"), last_check_in |-> JStr("2026-01-05 08:00:00"),
        last_check_out |-> JNull, hours_today |-> JNum(2), employee_name |-> JStr("Ann E")])

NarrowCheckedOut ==
  JObj([attendance_state |-> JStr("checked_out"), last_attendance_id |-> JFalse,
        hours_today |-> JNum(0)])

AttendanceResponses == FailureResponses \cup { Ok200(JNull, CheckedIn), Ok200(JNull, JNull) }

AttendanceFallbackResponses ==
  FailureResponses \cup
  { Ok200(JNull, NarrowCheckedOut), Ok200(JNull, JNull), Ok200(JNull, JFalse) }

\* the canonical state built from the narrower answer of the model call
FromNarrow(result) ==
  JObj([attendance_state |-> Field(result, "attendance_state"),
        last_check_in |-> JNull,
        last_check_out |-> JNull,
        hours_today |-> IF Falsy(Field(result, "hours_today")) THEN JNum(0)
                        ELSE Field(result, "hours_today"),
        employee_name |-> JStr("")])

\* getAuthenticatedClient() inside an operation: raise, or go on at pc next
WithClient(p, c, next) ==
  LET got == GetAuthenticatedClient(storage)
  IN  IF got.ok
      THEN Becomes(p, [c EXCEPT !.pc = next] @@ [client |-> got.client])
      ELSE Becomes(p, Finished(c, Raised(got.err)))

\* the network calls of the getAttendanceStatus(true) that caller p has just
\* finished, when it started less than the TTL ago; 0 when p did anything
\* else before
CallsJustBefore(p) ==
  IF /\ At(p, "getAttendanceStatus", "done") /\ call[p].useCache
     /\ now - call[p].startedAt < ATTENDANCE_CACHE_TTL
  THEN Len(call[p].calls)
  ELSE 0

\* a status call that asks for the session before it looks at the cache
AttendanceStartCachedNeedsSession(p) ==
  /\ CanStart(p)
  /\ LET c == [op |-> "getAttendanceStatus", pc |-> "getClient", calls |-> <<>>,
               useCache |-> TRUE, startedAt |-> now, carried |-> CallsJustBefore(p)]
         cached == GetCachedAttendanceState(storage, now)
     IN  IF ~GetAuthenticatedClient(storage).ok
         THEN Becomes(p, Finished(c, Raised(GetAuthenticatedClient(storage).err)))
         ELSE IF ~Falsy(cached)
         THEN Becomes(p, Finished(c, Returned(cached)))
         ELSE Becomes(p, c)
  /\ UNCHANGED <<storage, now>>

\* useCache = true: a valid entry is returned at once
AttendanceStartCached(p) ==
  /\ CanStart(p)
  /\ LET c == [op |-> "getAttendanceStatus", pc |-> "getClient", calls |-> <<>>,
               useCache |-> TRUE, startedAt |-> now, carried |-> CallsJustBefore(p)]
         cached == GetCachedAttendanceState(storage, now)
     IN  IF ~Falsy(cached)
         THEN Becomes(p, Finished(c, Returned(cached)))
         ELSE Becomes(p, c)
  /\ UNCHANGED <<storage, now>>

AttendanceGetClient(p) ==
  /\ At(p, "getAttendanceStatus", "getClient")
  /\ WithClient(p, call[p], "primary")
  /\ UNCHANGED <<storage, now>>

\* useCache = false: straight to getAuthenticatedClient
AttendanceStartFresh(p) ==
  /\ CanStart(p)
  /\ WithClient(p, [op |-> "getAttendanceStatus", pc |-> "getClient", calls |-> <<>>,
                    useCache |-> FALSE], "primary")
  /\ UNCHANGED <<storage, now>>

AttendancePrimary(p) ==
  /\ At(p, "getAttendanceStatus", "primary")
  /\ \E resp \in AttendanceResponses :
       LET c == call[p]
           endpoint == "/hr_attendance/attendance_user_data"
           out == RequestOutcome(endpoint, resp)
           sent == [c EXCEPT !.calls = Append(@, Envelope(c.client, endpoint)),
                             !.client = AfterRequest(c.client, resp)]
       IN  IF out.ok
           THEN Becomes(p, [sent EXCEPT !.pc = "cache"]
                           @@ [state |-> out.value, stamp |-> now, primaryResp |-> resp])
           ELSE Becomes(p, [sent EXCEPT !.pc = "fallback"]
                           @@ [error |-> out.err, primaryResp |-> resp])
  /\ UNCHANGED <<storage, now>>

\* a fallback whose own failure is what the caller gets
AttendanceFallbackRaisesOwn(p) ==
  /\ At(p, "getAttendanceStatus", "fallback")
  /\ \E resp \in AttendanceFallbackResponses :
       LET c == call[p]
           out == CallKwOutcome(resp)
           sent == [c EXCEPT !.calls = Append(@, Envelope(c.client, CallKwEndpoint)
                                                   @@ [method |-> "attendance_user_data"]),
                             !.client = AfterRequest(c.client, resp)]
       IN  IF out.ok /\ out.value.t \notin {"null", "undefined"}
           THEN Becomes(p, [sent EXCEPT !.pc = "cache"]
                           @@ [state |-> FromNarrow(out.value), stamp |-> now,
                               fallbackResp |-> resp])
           ELSE IF out.ok
           THEN Becomes(p, Finished(sent @@ [fallbackResp |-> resp], Raised(c.error)))
           ELSE Becomes(p, Finished(sent @@ [fallbackResp |-> resp], Raised(out.err)))
  /\ UNCHANGED <<storage, now>>

AttendanceFallback(p) ==
  /\ At(p, "getAttendanceStatus", "fallback")
  /\ \E resp \in AttendanceFallbackResponses :
       LET c == call[p]
           out == CallKwOutcome(resp)
           sent == [c EXCEPT !.calls = Append(@, Envelope(c.client, CallKwEndpoint)
                                                   @@ [method |-> "attendance_user_data"]),
                             !.client = AfterRequest(c.client, resp)]
       IN  IF out.ok /\ out.value.t \notin {"null", "undefined"}
           THEN Becomes(p, [sent EXCEPT !.pc = "cache"]
                           @@ [state |-> FromNarrow(out.value), stamp |-> now,
                               fallbackResp |-> resp])
           ELSE Becomes(p, Finished(sent @@ [fallbackResp |-> resp], Raised(c.error)))
  /\ UNCHANGED <<storage, now>>

\* a cache write that also stores the cookies the operation ended up with
AttendanceCachePersistsCookies(p) ==
  /\ At(p, "getAttendanceStatus", "cache")
  /\ LET cached == WriteCache(storage, ATTENDANCE_CACHE, call[p].state, call[p].stamp)
         session == cached[SESSION]
     IN  storage' = IF session.present /\ session.parses
                    THEN SaveSession(cached, [session.val EXCEPT
                                                !.v.cookies = call[p].client.cookies])
                    ELSE cached
  /\ Becomes(p, Finished(call[p], Returned(call[p].state)))
  /\ UNCHANGED now

AttendanceCache(p) ==
  /\ At(p, "getAttendanceStatus", "cache")
  /\ storage' = WriteCache(storage, ATTENDANCE_CACHE, call[p].state, call[p].stamp)
  /\ Becomes(p, Finished(call[p], Returned(call[p].state)))
  /\ UNCHANGED now

(***************************************************************************)
(* toggleCheckInOut()                                                      *)
(***************************************************************************)
ToggleEndpoint == "/hr_attendance/systray_check_in_out"

CheckedOut ==
  JObj([attendance_state |-> JStr("checked_out"), last_check_in |-> JStr("2026-01-05 08:00:00"),
        last_check_out |-> JStr("2026-01-05 12:00:00"), hours_today |-> JNum(4),
        employee_name |-> JStr("Ann E")])

ToggleResponses == FailureResponses \cup { Ok200(JNull, CheckedOut), Ok200(JNull, JNull) }

\* attendance_manual answers with an action; its result is not looked at
ManualResponses == {NetworkFailure, Ok200(JNull, JObj([action |-> JStr("reload")]))}

\* getAttendanceStatus(false) called from within the operation o, which
\* waits at position pc for its result
StatusWithin(o, pc) ==
  [op |-> "getAttendanceStatus", pc |-> "getClient", calls |-> <<>>, useCache |-> FALSE,
   outer |-> [o EXCEPT !.pc = pc]]

\* the status operation called from within p's operation has finished and
\* p's operation waits for it at position pc
Handed(p, pc) ==
  /\ At(p, "getAttendanceStatus", "done")
  /\ "outer" \in DOMAIN call[p]
  /\ call[p].outer.pc = pc

ToggleStart(p) ==
  /\ CanStart(p)
  /\ WithClient(p, [op |-> "toggleCheckInOut", pc |-> "getClient", calls |-> <<>>,
                    startedAt |-> now], "primary")
  /\ UNCHANGED <<storage, now>>

\* the toggle endpoint; when it fails the fallback begins with a fresh
\* status fetch
TogglePrimary(p) ==
  /\ At(p, "toggleCheckInOut", "primary")
  /\ \E resp \in ToggleResponses :
       LET c == call[p]
           out == RequestOutcome(ToggleEndpoint, resp)
           sent == [c EXCEPT !.calls = Append(@, Envelope(c.client, ToggleEndpoint)),
                             !.client = AfterRequest(c.client, resp)]
       IN  IF out.ok
           THEN Becomes(p, [sent EXCEPT !.pc = "cache"]
                           @@ [state |-> out.value, stamp |-> now, primaryResp |-> resp])
           ELSE Becomes(p, StatusWithin(sent @@ [error |-> out.err, primaryResp |-> resp],
                                        "status1"))
  /\ UNCHANGED <<storage, now>>

\* a toggle that returns the new state and leaves the cache as it was
ToggleReturnUncached(p) ==
  /\ At(p, "toggleCheckInOut", "cache")
  /\ Becomes(p, Finished(call[p], Returned(call[p].state)))
  /\ UNCHANGED <<storage, now>>

ToggleCache(p) ==
  /\ At(p, "toggleCheckInOut", "cache")
  /\ storage' = WriteCache(storage, ATTENDANCE_CACHE, call[p].state, call[p].stamp)
  /\ Becomes(p, Finished(call[p], Returned(call[p].state)))
  /\ UNCHANGED now

\* the current state has come back: reading attendance_state of null
\* throws, anything else leads to the manual action
ToggleStatus1(p) ==
  /\ Handed(p, "status1")
  /\ LET inner == call[p]
         o == [inner.outer EXCEPT !.calls = @ \o inner.calls]
     IN  IF inner.result.ok /\ inner.result.value.t \notin {"null", "undefined"}
         THEN Becomes(p, [o EXCEPT !.pc = "manual"])
         ELSE Becomes(p, Finished(o, Raised(o.error)))
  /\ UNCHANGED <<storage, now>>

\* attendance_manual on the toggle's own client, then the second status fetch
ToggleManual(p) ==
  /\ At(p, "toggleCheckInOut", "manual")
  /\ \E resp \in ManualResponses :
       LET c == call[p]
           out == CallKwOutcome(resp)
           sent == [c EXCEPT !.calls = Append(@, Envelope(c.client, CallKwEndpoint)
                                                   @@ [method |-> "attendance_manual"]),
                             !.client = AfterRequest(c.client, resp)]
       IN  IF out.ok
           THEN Becomes(p, StatusWithin(sent, "status2"))
           ELSE Becomes(p, Finished(sent, Raised(c.error)))
  /\ UNCHANGED <<storage, now>>

\* the new state has come back and is returned as it is
ToggleStatus2(p) ==
  /\ Handed(p, "status2")
  /\ LET inner == call[p]
         o == [inner.outer EXCEPT !.calls = @ \o inner.calls]
     IN  IF inner.result.ok
         THEN Becomes(p, Finished(o, Returned(inner.result.value)))
         ELSE Becomes(p, Finished(o, Raised(o.error)))
  /\ UNCHANGED <<storage, now>>

(***************************************************************************)
(* startTimer()                                                            *)
(***************************************************************************)
\* new Date(ms).toISOString()
IsoString(ms) == [t |-> "string", v |-> <<"iso", ms>>]

\* a timestamp as the server writes it, "2026-MM-DD HH:MM:SS", kept as the
\* fields it spells
OdooStamp(mo, d, h, mi, s) == [t |-> "string", v |-> <<"odoo", 2026, mo, d, h, mi, s>>]

\* what action_start_new_timesheet_timer may answer: false, null, a bare
\* id, an object with an id, an object without one (a window action)
StartActionResponses ==
  FailureResponses \cup
  { Ok200(JNull, r) : r \in {JFalse, JNull, JNum(43), JObj([id |-> JNum(43)]),
                              JObj([type |-> JStr("ir.actions.act_window_close")])} }

\* what get_running_timer may answer: nothing, a timer with its elapsed
\* minutes, a timer without them, an object without an id
RunningTimerResponses ==
  FailureResponses \cup {HttpResponse(403, "Forbidden", JNull, TRUE, JUndef, JNull)} \cup
  { Ok200(JNull, r) : r \in {JFalse, JObj([id |-> JNum(42), start |-> JNum(5)]),
                              JObj([id |-> JNum(42)]), JObj([step_timer |-> JNum(15)]),
                              JObj([id |-> JNum(42), start |-> JNum(5), project_id |-> JNum(3),
                                    task_id |-> JNum(9), description |-> JStr("review")])} }

OrNull(x) == IF Falsy(x) THEN JNull ELSE x

TimerState(timerId, projectId, taskId, description, startTime) ==
  JObj([timerId |-> timerId, projectId |-> projectId, projectName |-> JNull,
        taskId |-> taskId, taskName |-> JNull, description |-> description,
        startTime |-> startTime])

\* a timer id taken from the result as it is
ExtractTimerIdBare(result) == result

\* typeof result === "number" ? result : result.id
ExtractTimerId(result) == IF result.t = "number" THEN result ELSE Field(result, "id")

StartTimerStart(p) ==
  /\ CanStart(p)
  /\ WithClient(p, [op |-> "startTimer", pc |-> "getClient", calls |-> <<>>], "action")
  /\ UNCHANGED <<storage, now>>

\* the start action: a bare id or an object with an id starts "now"
StartTimerAction(p) ==
  /\ At(p, "startTimer", "action")
  /\ \E resp \in StartActionResponses :
       LET c == call[p]
           out == CallKwOutcome(resp)
           result == out.value
           sent == [c EXCEPT !.calls = Append(@, CallKwEnvelope(c.client,
                                                    "action_start_new_timesheet_timer")),
                             !.client = AfterRequest(c.client, resp)]
                   @@ [actionResp |-> resp]
           timerId == ExtractTimerId(result)
           startTime == IsoString(now)
       IN  IF ~out.ok THEN Becomes(p, Finished(sent, Raised(out.err)))
           ELSE IF result.t \in {"false", "null"} THEN Becomes(p, [sent EXCEPT !.pc = "lookup"])
           ELSE IF Falsy(result)
           THEN Becomes(p, Finished(sent,
                   Raised(PlainError("Failed to start timer: action returned invalid result"))))
           ELSE Becomes(p, [sent EXCEPT !.pc = "cache"]
                           @@ [timerState |-> TimerState(timerId, JNull, JNull, JNull, startTime),
                               stamp |-> now,
                               answer |-> JObj([timerId |-> timerId, startTime |-> startTime])])
  /\ UNCHANGED <<storage, now>>

\* a start time that ignores the elapsed minutes
LookupStartTimeNow(timerResult, t) == IsoString(t)

\* new Date(Date.now() - (timerResult.start || 0) * 60000).toISOString()
LookupStartTime(timerResult, t) ==
  LET minutes == IF Falsy(Field(timerResult, "start")) THEN 0
                 ELSE Field(timerResult, "start").v
  IN  IsoString(t - minutes * 60000)

\* the running-timer lookup after a start action that gave no id
StartTimerLookup(p) ==
  /\ At(p, "startTimer", "lookup")
  /\ \E resp \in RunningTimerResponses :
       LET c == call[p]
           out == CallKwOutcome(resp)
           timerResult == out.value
           sent == [c EXCEPT !.calls = Append(@, CallKwEnvelope(c.client, "get_running_timer")),
                             !.client = AfterRequest(c.client, resp)]
                   @@ [lookupResp |-> resp]
           startTime == LookupStartTime(timerResult, now)
       IN  IF ~out.ok THEN Becomes(p, Finished(sent, Raised(out.err)))
           ELSE IF Falsy(timerResult) \/ Falsy(Field(timerResult, "id"))
           THEN Becomes(p, Finished(sent, Raised(PlainError(
                   "Timer action succeeded but no running timer found. Please try again."))))
           ELSE Becomes(p, [sent EXCEPT !.pc = "cache"]
                           @@ [timerState |-> TimerState(Field(timerResult, "id"),
                                                         OrNull(Field(timerResult, "project_id")),
                                                         OrNull(Field(timerResult, "task_id")),
                                                         OrNull(Field(timerResult, "description")),
                                                         startTime),
                               stamp |-> now,
                               answer |-> JObj([timerId |-> Field(timerResult, "id"),
                                                startTime |-> startTime])])
  /\ UNCHANGED <<storage, now>>

StartTimerCache(p) ==
  /\ At(p, "startTimer", "cache")
  /\ storage' = WriteCache(storage, TIMER_CACHE, call[p].timerState, call[p].stamp)
  /\ Becomes(p, Finished(call[p], Returned(call[p].answer)))
  /\ UNCHANGED now

\* what the read of timer_start may answer: no record, a record with the
\* field set, a record with the field unset (Odoo sends false)
TimerReadResponses ==
  FailureResponses \cup
  { Ok200(JNull, r) : r \in {JArr(<<>>),
                              JArr(<<JObj([id |-> JNum(42),
                                           timer_start |-> OdooStamp(1, 5, 8, 0, 0)])>>),
                              JArr(<<JObj([id |-> JNum(42), timer_start |-> JFalse])>>)} }

(***************************************************************************)
(* getProjects() and getTasks(projectId), called from within an operation  *)
(***************************************************************************)
\* one callKw of an operation: the envelope is logged, with whether the call
\* succeeded, and the client moves on
Sent(c, method, resp) ==
  [c EXCEPT !.calls = Append(@, CallKwEnvelope(c.client, method)
                                @@ [ok |-> CallKwOutcome(resp).ok]),
            !.client = AfterRequest(c.client, resp)]

\* a callKw whose arguments carry the given values
SentWith(c, method, values, resp) ==
  LET sent == Sent(c, method, resp)
  IN  [sent EXCEPT !.calls[Len(sent.calls)] = @ @@ [values |-> values]]

\* a [id, name] pair of name_search
NamePair(id, name) == JArr(<<JNum(id), JStr(name)>>)

ProjectSearchResponses ==
  FailureResponses \cup
  { Ok200(JNull, r) : r \in {JArr(<<>>),
                              JArr(<<NamePair(3, "Website"), NamePair(4, "Intranet")>>)} }

TaskSearchResponses ==
  FailureResponses \cup
  { Ok200(JNull, r) : r \in {JArr(<<>>),
                              JArr(<<NamePair(9, "Design"), NamePair(8, "Build")>>)} }

\* result.map(([id, name]) => ({ id, name }))
ToNamed(result) ==
  JArr([i \in 1..Len(result.v) |-> JObj([id |-> result.v[i].v[1], name |-> result.v[i].v[2]])])

\* list.find((x) => x.id === id)?.name || null
NameOf(list, id) ==
  LET hits == {i \in 1..Len(list.v) : list.v[i].v.id = id}
  IN  IF hits = {} THEN JNull
      ELSE OrNull(list.v[CHOOSE i \in hits : \A j \in hits : i <= j].v.name)

\* getProjects() or getTasks() called from within the operation o, which
\* waits at position pc for the list
NamesWithin(o, op, pc) ==
  [op |-> op, pc |-> "getClient", calls |-> <<>>, outer |-> [o EXCEPT !.pc = pc]]

\* the lookup op called from within p's operation has finished and p's
\* operation waits for it at position pc
HandedNames(p, op, pc) ==
  /\ At(p, op, "done")
  /\ "outer" \in DOMAIN call[p]
  /\ call[p].outer.pc = pc

\* the waiting operation, with the calls of the finished lookup in its log
Resumed(inner) == [inner.outer EXCEPT !.calls = @ \o inner.calls]

GetProjectsGetClient(p) ==
  /\ At(p, "getProjects", "getClient")
  /\ WithClient(p, call[p], "search")
  /\ UNCHANGED <<storage, now>>

GetProjectsSearch(p) ==
  /\ At(p, "getProjects", "search")
  /\ \E resp \in ProjectSearchResponses :
       LET out == CallKwOutcome(resp)
           sent == Sent(call[p], "project.project/name_search", resp)
       IN  IF out.ok THEN Becomes(p, Finished(sent, Returned(ToNamed(out.value))))
           ELSE Becomes(p, Finished(sent, Raised(out.err)))
  /\ UNCHANGED <<storage, now>>

GetTasksGetClient(p) ==
  /\ At(p, "getTasks", "getClient")
  /\ WithClient(p, call[p], "search")
  /\ UNCHANGED <<storage, now>>

GetTasksSearch(p) ==
  /\ At(p, "getTasks", "search")
  /\ \E resp \in TaskSearchResponses :
       LET out == CallKwOutcome(resp)
           sent == Sent(call[p], "project.task/name_search", resp)
       IN  IF out.ok THEN Becomes(p, Finished(sent, Returned(ToNamed(out.value))))
           ELSE Becomes(p, Finished(sent, Raised(out.err)))
  /\ UNCHANGED <<storage, now>>

(***************************************************************************)
(* startTimerWithDetails(projectId, taskId, description?)                  *)
(***************************************************************************)
\* the descriptions a caller gives: none, or a text
Descriptions == {JUndef, JStr("review")}

CreateResponses == FailureResponses \cup {Ok200(JNull, JNum(44))}

\* an action that answers true when done
DoneResponses == FailureResponses \cup {Ok200(JNull, JTrue)}

DetailsStart(p) ==
  /\ CanStart(p)
  /\ \E description \in Descriptions :
       WithClient(p, [op |-> "startTimerWithDetails", pc |-> "getClient", calls |-> <<>>,
                      projectId |-> JNum(3), taskId |-> JNum(9),
                      description |-> description], "create")
  /\ UNCHANGED <<storage, now>>

DetailsCreate(p) ==
  /\ At(p, "startTimerWithDetails", "create")
  /\ \E resp \in CreateResponses :
       LET out == CallKwOutcome(resp)
           sent == Sent(call[p], "create", resp)
       IN  IF out.ok THEN Becomes(p, [sent EXCEPT !.pc = "action"] @@ [timerId |-> out.value])
           ELSE Becomes(p, Finished(sent, Raised(out.err)))
  /\ UNCHANGED <<storage, now>>

DetailsAction(p) ==
  /\ At(p, "startTimerWithDetails", "action")
  /\ \E resp \in DoneResponses :
       LET out == CallKwOutcome(resp)
           sent == Sent(call[p], "action_timer_start", resp)
       IN  IF out.ok THEN Becomes(p, [sent EXCEPT !.pc = "read"])
           ELSE Becomes(p, Finished(sent, Raised(out.err)))
  /\ UNCHANGED <<storage, now>>

\* a start time made up from the local clock
ReadTimerStartLocal(timerDetails) == IsoString(now)

\* timerDetails[0].timer_start
ReadTimerStart(timerDetails) == Field(timerDetails.v[1], "timer_start")

\* the read of timer_start: its value is the start time, as it is
\* a read that caches the timer before the names are looked up
DetailsReadCaches(p) ==
  /\ At(p, "startTimerWithDetails", "read")
  /\ \E resp \in TimerReadResponses :
       LET c == call[p]
           out == CallKwOutcome(resp)
           timerDetails == out.value
           sent == Sent(c, "read", resp) @@ [readResp |-> resp]
           startTime == ReadTimerStart(timerDetails)
           timerState == TimerState(c.timerId, c.projectId, c.taskId,
                                    OrNull(c.description), startTime)
       IN  IF ~out.ok
           THEN Becomes(p, Finished(sent, Raised(out.err))) /\ storage' = storage
           ELSE IF Falsy(timerDetails) \/ Len(timerDetails.v) = 0
           THEN /\ Becomes(p, Finished(sent, Raised(PlainError("Failed to read timer details"))))
                /\ storage' = storage
           ELSE /\ Becomes(p, NamesWithin(sent @@ [timerState |-> timerState,
                                                   answer |-> JObj([timerId |-> c.timerId,
                                                                    startTime |-> startTime])],
                                          "getProjects", "projects"))
                /\ storage' = WriteCache(storage, TIMER_CACHE, timerState, now)
  /\ UNCHANGED now

DetailsRead(p) ==
  /\ At(p, "startTimerWithDetails", "read")
  /\ \E resp \in TimerReadResponses :
       LET c == call[p]
           out == CallKwOutcome(resp)
           timerDetails == out.value
           sent == Sent(c, "read", resp) @@ [readResp |-> resp]
           startTime == ReadTimerStart(timerDetails)
           timerState == TimerState(c.timerId, c.projectId, c.taskId,
                                    OrNull(c.description), startTime)
       IN  IF ~out.ok THEN Becomes(p, Finished(sent, Raised(out.err)))
           ELSE IF Falsy(timerDetails) \/ Len(timerDetails.v) = 0
           THEN Becomes(p, Finished(sent, Raised(PlainError("Failed to read timer details"))))
           ELSE Becomes(p, NamesWithin(sent @@ [timerState |-> timerState,
                                                answer |-> JObj([timerId |-> c.timerId,
                                                                 startTime |-> startTime])],
                                       "getProjects", "projects"))
  /\ UNCHANGED <<storage, now>>

DetailsProjects(p) ==
  /\ HandedNames(p, "getProjects", "projects")
  /\ call[p].outer.op = "startTimerWithDetails"
  /\ LET inner == call[p]
         o == Resumed(inner)
         named == [o EXCEPT !.timerState.v.projectName = NameOf(inner.result.value, o.projectId)]
                  @@ [projects |-> inner.result.value]
     IN  IF inner.result.ok
         THEN Becomes(p, NamesWithin(named, "getTasks", "tasks"))
         ELSE Becomes(p, Finished(o, inner.result))
  /\ UNCHANGED <<storage, now>>

DetailsTasks(p) ==
  /\ HandedNames(p, "getTasks", "tasks")
  /\ call[p].outer.op = "startTimerWithDetails"
  /\ LET inner == call[p]
         o == Resumed(inner)
         named == [o EXCEPT !.timerState.v.taskName = NameOf(inner.result.value, o.taskId)]
                  @@ [tasks |-> inner.result.value]
     IN  IF inner.result.ok
         THEN Becomes(p, [named EXCEPT !.pc = "cache"] @@ [stamp |-> now])
         ELSE Becomes(p, Finished(o, inner.result))
  /\ UNCHANGED <<storage, now>>

DetailsCache(p) ==
  /\ At(p, "startTimerWithDetails", "cache")
  /\ storage' = WriteCache(storage, TIMER_CACHE, call[p].timerState, call[p].stamp)
  /\ Becomes(p, Finished(call[p], Returned(call[p].answer)))
  /\ UNCHANGED now

(***************************************************************************)
(* getRunningTimer(useCache)                                               *)
(***************************************************************************)
\* the operation caller p is in, seen from outside: the waiting operation
\* when a lookup runs within it
TopOp(p) == IF "outer" \in DOMAIN call[p] THEN call[p].outer ELSE call[p]

\* successful stopTimer and cancelTimer calls that have completed
StopsDone ==
  Cardinality({q \in Callers : /\ call[q].op \in {"stopTimer", "cancelTimer"}
                               /\ call[q].pc = "done"
                               /\ call[q].result.ok})

\* the timer cache item as it is stored, and when it was looked at
Seen == [entry |-> storage[TIMER_CACHE], at |-> now]

\* a cache-first lookup that also accepts an entry of exactly the TTL's age
GetRunningTimerStartInclusive(p) ==
  /\ CanStart(p)
  /\ LET c == [op |-> "getRunningTimer", pc |-> "getClient", calls |-> <<>>,
               useCache |-> TRUE, epoch |-> StopsDone, seen |-> Seen]
         cached == ReadCacheInclusive(storage, TIMER_CACHE, TIMER_CACHE_TTL, now)
     IN  IF ~Falsy(cached)
         THEN Becomes(p, Finished(c, Returned(cached)))
         ELSE Becomes(p, c)
  /\ UNCHANGED <<storage, now>>

\* useCache = true: a valid cache entry is returned at once
GetRunningTimerStart(p) ==
  /\ CanStart(p)
  /\ LET c == [op |-> "getRunningTimer", pc |-> "getClient", calls |-> <<>>,
               useCache |-> TRUE, epoch |-> StopsDone, seen |-> Seen]
         cached == GetCachedTimerState(storage, now)
     IN  IF ~Falsy(cached)
         THEN Becomes(p, Finished(c, Returned(cached)))
         ELSE Becomes(p, c)
  /\ UNCHANGED <<storage, now>>

GetRunningTimerGetClient(p) ==
  /\ At(p, "getRunningTimer", "getClient")
  /\ WithClient(p, call[p], "lookup")
  /\ UNCHANGED <<storage, now>>

\* useCache = false: straight to getAuthenticatedClient
GetRunningTimerStartFresh(p) ==
  /\ CanStart(p)
  /\ WithClient(p, [op |-> "getRunningTimer", pc |-> "getClient", calls |-> <<>>,
                    useCache |-> FALSE, epoch |-> StopsDone, seen |-> Seen], "lookup")
  /\ UNCHANGED <<storage, now>>

\* a lookup whose failure is thrown on to the caller
GetRunningTimerLookupRaises(p) ==
  /\ At(p, "getRunningTimer", "lookup")
  /\ \E resp \in RunningTimerResponses :
       LET c == call[p]
           out == CallKwOutcome(resp)
           result == out.value
           sent == Sent(c, "get_running_timer", resp) @@ [lookupResp |-> resp]
       IN  IF ~out.ok THEN Becomes(p, Finished(sent, Raised(out.err)))
           ELSE IF Falsy(result) \/ Falsy(Field(result, "id"))
           THEN Becomes(p, [sent EXCEPT !.pc = "clear"])
           ELSE Becomes(p, [sent EXCEPT !.pc = "read"] @@ [running |-> result])
  /\ UNCHANGED <<storage, now>>

\* get_running_timer: a failure is swallowed, no id clears the cache
GetRunningTimerLookup(p) ==
  /\ At(p, "getRunningTimer", "lookup")
  /\ \E resp \in RunningTimerResponses :
       LET c == call[p]
           out == CallKwOutcome(resp)
           result == out.value
           sent == Sent(c, "get_running_timer", resp) @@ [lookupResp |-> resp]
       IN  IF ~out.ok THEN Becomes(p, Finished(sent, Returned(JNull)))
           ELSE IF Falsy(result) \/ Falsy(Field(result, "id"))
           THEN Becomes(p, [sent EXCEPT !.pc = "clear"])
           ELSE Becomes(p, [sent EXCEPT !.pc = "read"] @@ [running |-> result])
  /\ UNCHANGED <<storage, now>>

GetRunningTimerClear(p) ==
  /\ At(p, "getRunningTimer", "clear")
  /\ storage' = RemoveItem(storage, TIMER_CACHE)
  /\ Becomes(p, Finished(call[p], Returned(JNull)))
  /\ UNCHANGED now

\* the read of timer_start: its value becomes the start time as it is; the
\* names are looked up when the timer has a project
GetRunningTimerRead(p) ==
  /\ At(p, "getRunningTimer", "read")
  /\ \E resp \in TimerReadResponses :
       LET c == call[p]
           out == CallKwOutcome(resp)
           timerDetails == out.value
           sent == Sent(c, "read", resp) @@ [readResp |-> resp]
           startTime == ReadTimerStart(timerDetails)
           timerState == TimerState(Field(c.running, "id"),
                                    OrNull(Field(c.running, "project_id")),
                                    OrNull(Field(c.running, "task_id")),
                                    OrNull(Field(c.running, "description")),
                                    startTime)
           found == sent @@ [timerState |-> timerState, stamp |-> now]
       IN  IF ~out.ok THEN Becomes(p, Finished(sent, Returned(JNull)))
           ELSE IF Falsy(timerDetails) \/ Len(timerDetails.v) = 0
           THEN Becomes(p, [sent EXCEPT !.pc = "clear"])
           ELSE IF ~Falsy(Field(timerState, "projectId"))
           THEN Becomes(p, NamesWithin(found, "getProjects", "projects"))
           ELSE Becomes(p, [found EXCEPT !.pc = "cache"])
  /\ UNCHANGED <<storage, now>>

\* the project list has come back; a failure of it is swallowed
GetRunningTimerProjects(p) ==
  /\ HandedNames(p, "getProjects", "projects")
  /\ call[p].outer.op = "getRunningTimer"
  /\ LET inner == call[p]
         o == Resumed(inner)
         named == [o EXCEPT !.timerState.v.projectName =
                              NameOf(inner.result.value, o.timerState.v.projectId),
                            !.stamp = now]
     IN  IF ~inner.result.ok THEN Becomes(p, Finished(o, Returned(JNull)))
         ELSE IF ~Falsy(Field(o.timerState, "taskId"))
         THEN Becomes(p, NamesWithin(named, "getTasks", "tasks"))
         ELSE Becomes(p, [named EXCEPT !.pc = "cache"])
  /\ UNCHANGED <<storage, now>>

GetRunningTimerTasks(p) ==
  /\ HandedNames(p, "getTasks", "tasks")
  /\ call[p].outer.op = "getRunningTimer"
  /\ LET inner == call[p]
         o == Resumed(inner)
         named == [o EXCEPT !.timerState.v.taskName =
                              NameOf(inner.result.value, o.timerState.v.taskId),
                            !.stamp = now]
     IN  IF ~inner.result.ok THEN Becomes(p, Finished(o, Returned(JNull)))
         ELSE Becomes(p, [named EXCEPT !.pc = "cache"])
  /\ UNCHANGED <<storage, now>>

GetRunningTimerCache(p) ==
  /\ At(p, "getRunningTimer", "cache")
  /\ storage' = WriteCache(storage, TIMER_CACHE, call[p].timerState, call[p].stamp)
  /\ Becomes(p, Finished(call[p], Returned(call[p].timerState)))
  /\ UNCHANGED now

(***************************************************************************)
(* assignTimerDetails(timerId, projectId, taskId, description?)            *)
(***************************************************************************)
\* the timer ids a caller passes: the one the server reports, and another
TimerIds == {JNum(42), JNum(7)}

\* a check that takes any cached timer for the one asked about
SameTimerAny(cachedState, timerId) == ~Falsy(cachedState)

\* cachedState && cachedState.timerId === timerId
SameTimer(cachedState, timerId) ==
  ~Falsy(cachedState) /\ Field(cachedState, "timerId") = timerId

AssignStart(p) ==
  /\ CanStart(p)
  /\ \E timerId \in TimerIds, description \in Descriptions :
       WithClient(p, [op |-> "assignTimerDetails", pc |-> "getClient", calls |-> <<>>,
                      timerId |-> timerId, projectId |-> JNum(4), taskId |-> JNum(8),
                      description |-> description, epoch |-> StopsDone], "onchangeProject")
  /\ UNCHANGED <<storage, now>>

AssignOnchangeProject(p) ==
  /\ At(p, "assignTimerDetails", "onchangeProject")
  /\ \E resp \in DoneResponses :
       LET c == call[p]
           values == JObj([name |-> JFalse, project_id |-> c.projectId, task_id |-> JFalse,
                           timer_start |-> JFalse, unit_amount |-> JNum(0)])
           sent == SentWith(c, "onchange", values, resp)
       IN  IF CallKwOutcome(resp).ok THEN Becomes(p, [sent EXCEPT !.pc = "onchangeTask"])
           ELSE Becomes(p, Finished(sent, Raised(CallKwOutcome(resp).err)))
  /\ UNCHANGED <<storage, now>>

AssignOnchangeTask(p) ==
  /\ At(p, "assignTimerDetails", "onchangeTask")
  /\ \E resp \in DoneResponses :
       LET c == call[p]
           sent == SentWith(c, "onchange", JObj([task_id |-> c.taskId]), resp)
       IN  IF CallKwOutcome(resp).ok THEN Becomes(p, [sent EXCEPT !.pc = "save"])
           ELSE Becomes(p, Finished(sent, Raised(CallKwOutcome(resp).err)))
  /\ UNCHANGED <<storage, now>>

\* web_save, then the look at the cache: a matching entry is patched after
\* the names are looked up, anything else ends the call
AssignSave(p) ==
  /\ At(p, "assignTimerDetails", "save")
  /\ \E resp \in DoneResponses :
       LET c == call[p]
           saveData == JSONValue(JObj([task_id |-> c.taskId,
                                       name |-> IF Falsy(c.description) THEN JUndef
                                                ELSE c.description]))
           sent == SentWith(c, "web_save", saveData, resp) @@ [seen |-> Seen]
           cached == GetCachedTimerState(storage, now)
           cachedState == [cached EXCEPT !.v.projectId = c.projectId,
                                           !.v.taskId = c.taskId,
                                           !.v.description = OrNull(c.description)]
       IN  IF ~CallKwOutcome(resp).ok
           THEN Becomes(p, Finished(sent, Raised(CallKwOutcome(resp).err)))
           ELSE IF SameTimer(cached, c.timerId)
           THEN Becomes(p, NamesWithin(sent @@ [cachedState |-> cachedState],
                                       "getProjects", "projects"))
           ELSE Becomes(p, Finished(sent, Returned(JUndef)))
  /\ UNCHANGED <<storage, now>>

AssignProjects(p) ==
  /\ HandedNames(p, "getProjects", "projects")
  /\ call[p].outer.op = "assignTimerDetails"
  /\ LET inner == call[p]
         o == Resumed(inner)
         named == [o EXCEPT !.cachedState.v.projectName = NameOf(inner.result.value, o.projectId)]
                  @@ [projects |-> inner.result.value]
     IN  IF inner.result.ok
         THEN Becomes(p, NamesWithin(named, "getTasks", "tasks"))
         ELSE Becomes(p, Finished(o, inner.result))
  /\ UNCHANGED <<storage, now>>

AssignTasks(p) ==
  /\ HandedNames(p, "getTasks", "tasks")
  /\ call[p].outer.op = "assignTimerDetails"
  /\ LET inner == call[p]
         o == Resumed(inner)
         named == [o EXCEPT !.cachedState.v.taskName = NameOf(inner.result.value, o.taskId)]
                  @@ [tasks |-> inner.result.value]
     IN  IF inner.result.ok
         THEN Becomes(p, [named EXCEPT !.pc = "cache"] @@ [stamp |-> now])
         ELSE Becomes(p, Finished(o, inner.result))
  /\ UNCHANGED <<storage, now>>

AssignCache(p) ==
  /\ At(p, "assignTimerDetails", "cache")
  /\ storage' = WriteCache(storage, TIMER_CACHE, call[p].cachedState, call[p].stamp)
  /\ Becomes(p, Finished(call[p], Returned(JUndef)))
  /\ UNCHANGED now

(***************************************************************************)
(* updateTimer(timerId, projectId?, taskId?, description?)                 *)
(***************************************************************************)
\* the calls made: all three fields, each one alone, and another timer
UpdateArgs ==
  { [timerId |-> JNum(42), projectId |-> JNum(4), taskId |-> JNum(8), description |-> JStr("notes")],
    [timerId |-> JNum(42), projectId |-> JNum(4), taskId |-> JUndef, description |-> JUndef],
    [timerId |-> JNum(42), projectId |-> JUndef, taskId |-> JNum(8), description |-> JUndef],
    [timerId |-> JNum(42), projectId |-> JUndef, taskId |-> JUndef, description |-> JStr("notes")],
    [timerId |-> JNum(7), projectId |-> JNum(4), taskId |-> JNum(8), description |-> JStr("notes")] }

\* a patch that always carries all three fields
UpdateValuesFull(c) ==
  JObj([project_id |-> c.projectId, task_id |-> c.taskId, name |-> c.description])

\* the values of the write: only the fields that were given
UpdateValues(c) ==
  JSONValue(JObj([project_id |-> c.projectId, task_id |-> c.taskId, name |-> c.description]))

\* the end of the patch: the description if given, then the cache write
UpdateDescribed(o) ==
  LET described == IF o.description.t # "undefined"
                   THEN [o EXCEPT !.cachedState.v.description = o.description]
                   ELSE o
  IN  [described EXCEPT !.pc = "cache"] @@ [stamp |-> now]

\* the task part of the patch: the id, and the name when the cached state
\* has a project to look the tasks up in
UpdateTask(o) ==
  IF o.taskId.t = "undefined" THEN UpdateDescribed(o)
  ELSE LET tasked == [o EXCEPT !.cachedState.v.taskId = o.taskId]
       IN  IF ~Falsy(Field(tasked.cachedState, "projectId"))
           THEN NamesWithin(tasked, "getTasks", "tasks")
           ELSE UpdateDescribed(tasked)

UpdateStart(p) ==
  /\ CanStart(p)
  /\ \E args \in UpdateArgs :
       WithClient(p, [op |-> "updateTimer", pc |-> "getClient", calls |-> <<>>,
                      epoch |-> StopsDone] @@ args, "write")
  /\ UNCHANGED <<storage, now>>

\* the writes of updateTimer the server has applied, and the cache writes
\* of updateTimer so far
WritesApplied == Cardinality({q \in Callers : "wrote" \in DOMAIN TopOp(q)})
CacheWrites == Cardinality({q \in Callers : "cachedNo" \in DOMAIN TopOp(q)})

\* the write, then the look at the cache
UpdateWrite(p) ==
  /\ At(p, "updateTimer", "write")
  /\ \E resp \in DoneResponses :
       LET c == call[p]
           sent == SentWith(c, "write", UpdateValues(c), resp) @@ [seen |-> Seen]
                   @@ (IF CallKwOutcome(resp).ok THEN [wrote |-> WritesApplied + 1]
                       ELSE <<>>)
           cached == GetCachedTimerState(storage, now)
           found == sent @@ [cachedState |-> cached]
       IN  IF ~CallKwOutcome(resp).ok
           THEN Becomes(p, Finished(sent, Raised(CallKwOutcome(resp).err)))
           ELSE IF ~SameTimer(cached, c.timerId)
           THEN Becomes(p, Finished(sent, Returned(JUndef)))
           ELSE IF c.projectId.t # "undefined"
           THEN Becomes(p, NamesWithin([found EXCEPT !.cachedState.v.projectId = c.projectId],
                                       "getProjects", "projects"))
           ELSE Becomes(p, UpdateTask(found))
  /\ UNCHANGED <<storage, now>>

UpdateProjects(p) ==
  /\ HandedNames(p, "getProjects", "projects")
  /\ call[p].outer.op = "updateTimer"
  /\ LET inner == call[p]
         o == Resumed(inner)
         named == [o EXCEPT !.cachedState.v.projectName = NameOf(inner.result.value, o.projectId)]
                  @@ [projects |-> inner.result.value]
     IN  IF inner.result.ok
         THEN Becomes(p, UpdateTask(named))
         ELSE Becomes(p, Finished(o, inner.result))
  /\ UNCHANGED <<storage, now>>

UpdateTasks(p) ==
  /\ HandedNames(p, "getTasks", "tasks")
  /\ call[p].outer.op = "updateTimer"
  /\ LET inner == call[p]
         o == Resumed(inner)
         named == [o EXCEPT !.cachedState.v.taskName = NameOf(inner.result.value, o.taskId)]
                  @@ [tasks |-> inner.result.value]
     IN  IF inner.result.ok
         THEN Becomes(p, UpdateDescribed(named))
         ELSE Becomes(p, Finished(o, inner.result))
  /\ UNCHANGED <<storage, now>>

UpdateCache(p) ==
  /\ At(p, "updateTimer", "cache")
  /\ storage' = WriteCache(storage, TIMER_CACHE, call[p].cachedState, call[p].stamp)
  /\ Becomes(p, Finished(call[p] @@ [cachedNo |-> CacheWrites + 1], Returned(JUndef)))
  /\ UNCHANGED now

(***************************************************************************)
(* stopTimer(timerId) and cancelTimer(timerId)                             *)
(***************************************************************************)
\* what the read of unit_amount may answer: no record, or the hours
UnitReadResponses ==
  FailureResponses \cup
  { Ok200(JNull, r) : r \in {JArr(<<>>), JArr(<<JObj([id |-> JNum(42), unit_amount |-> JNum(2)])>>)} }

StopStart(p) ==
  /\ CanStart(p)
  /\ WithClient(p, [op |-> "stopTimer", pc |-> "getClient", calls |-> <<>>,
                    timerId |-> JNum(42), seen |-> Seen], "stop")
  /\ UNCHANGED <<storage, now>>

\* action_timer_stop with [timerId, true]
StopAction(p) ==
  /\ At(p, "stopTimer", "stop")
  /\ \E resp \in DoneResponses :
       LET c == call[p]
           sent == SentWith(c, "action_timer_stop", JArr(<<c.timerId, JTrue>>), resp)
       IN  IF CallKwOutcome(resp).ok THEN Becomes(p, [sent EXCEPT !.pc = "clear"])
           ELSE Becomes(p, Finished(sent, Raised(CallKwOutcome(resp).err)))
  /\ UNCHANGED <<storage, now>>

\* a stop that goes on to the read with the cache as it is
StopKeepsCache(p) ==
  /\ At(p, "stopTimer", "clear")
  /\ Becomes(p, [call[p] EXCEPT !.pc = "read"])
  /\ UNCHANGED <<storage, now>>

StopClear(p) ==
  /\ At(p, "stopTimer", "clear")
  /\ storage' = RemoveItem(storage, TIMER_CACHE)
  /\ Becomes(p, [call[p] EXCEPT !.pc = "read"])
  /\ UNCHANGED now

\* lines && lines.length > 0 ? lines[0].unit_amount * 3600 : 0
StopRead(p) ==
  /\ At(p, "stopTimer", "read")
  /\ \E resp \in UnitReadResponses :
       LET c == call[p]
           out == CallKwOutcome(resp)
           lines == out.value
           sent == Sent(c, "read", resp) @@ [readResp |-> resp]
           duration == IF ~Falsy(lines) /\ Len(lines.v) > 0
                       THEN JNum(Field(lines.v[1], "unit_amount").v * 3600)
                       ELSE JNum(0)
       IN  IF out.ok THEN Becomes(p, Finished(sent, Returned(JObj([duration |-> duration]))))
           ELSE Becomes(p, Finished(sent, Raised(out.err)))
  /\ UNCHANGED <<storage, now>>

CancelStart(p) ==
  /\ CanStart(p)
  /\ WithClient(p, [op |-> "cancelTimer", pc |-> "getClient", calls |-> <<>>,
                    timerId |-> JNum(42)], "unlink")
  /\ UNCHANGED <<storage, now>>

CancelUnlink(p) ==
  /\ At(p, "cancelTimer", "unlink")
  /\ \E resp \in DoneResponses :
       LET c == call[p]
           sent == SentWith(c, "action_timer_unlink", JArr(<<c.timerId>>), resp)
       IN  IF CallKwOutcome(resp).ok THEN Becomes(p, [sent EXCEPT !.pc = "clear"])
           ELSE Becomes(p, Finished(sent, Raised(CallKwOutcome(resp).err)))
  /\ UNCHANGED <<storage, now>>

CancelClear(p) ==
  /\ At(p, "cancelTimer", "clear")
  /\ storage' = RemoveItem(storage, TIMER_CACHE)
  /\ Becomes(p, Finished(call[p], Returned(JUndef)))
  /\ UNCHANGED now

(***************************************************************************)
(* The clock                                                               *)
(***************************************************************************)
ClockSteps == {30000}

Tick ==
  /\ \E d \in ClockSteps : now + d <= MaxNow /\ now' = now + d
  /\ UNCHANGED <<storage, call, transportVars, pureVars>>

\* the same clock, running long enough for both caches to expire
TickLate ==
  /\ \E d \in ClockSteps : now + d <= MaxLateNow /\ now' = now + d
  /\ UNCHANGED <<storage, call, transportVars, pureVars>>

(***************************************************************************)
(* Specifications                                                          *)
(***************************************************************************)
InitMain ==
  /\ storage = [k \in StorageKeys |-> NoItem]
  /\ now = 0
  /\ call = [p \in Callers |-> Idle]

InitTransport ==
  /\ transport = NewOdooClient("", JNull, <<>>)
  /\ envelopes = <<>>
  /\ lastCall = NoCall

NoProbe == [kind |-> "none"]

\* the timesheet command is not on screen
NoTimesheet == [pc |-> "unmounted"]

NoResolution == [url |-> "", resp |-> NetworkFailure, dbName |-> "", done |-> FALSE]

\* the operations of one caller
Step(p) ==
  \/ HasActiveSession(p)
  \/ GetAuthenticatedClientCall(p)
  \/ LoginStart(p)
  \/ LoginDatabaseList(p)
  \/ LoginAuthenticate(p)
  \/ LoginEmployee(p)
  \/ LoginSave(p)
  \/ LogoutStart(p)
  \/ LogoutDestroy(p)
  \/ LogoutRemoveSession(p)
  \/ LogoutRemoveUserInfo(p)
  \/ LogoutRemoveAttendance(p)
  \/ LogoutRemoveTimer(p)
  \/ AttendanceStartCached(p)
  \/ AttendanceStartFresh(p)
  \/ AttendanceGetClient(p)
  \/ AttendancePrimary(p)
  \/ AttendanceFallback(p)
  \/ AttendanceCache(p)
  \/ StartTimerStart(p)
  \/ StartTimerAction(p)
  \/ StartTimerLookup(p)
  \/ StartTimerCache(p)

\* Spec: a client that runs one operation at a time, against any server
Init ==
  /\ InitMain /\ InitTransport /\ resolution = NoResolution /\ cacheProbe = NoProbe
  /\ timesheet = NoTimesheet

Next ==
  \/ Tick
  \/ \E p \in SeqCallers : Step(p)

Spec == Init /\ [][Next]_vars

\* SpecTransport: one OdooClient driven directly
InitT ==
  /\ InitMain
  /\ transport \in TransportConstructions
  /\ envelopes = <<>>
  /\ lastCall = NoCall
  /\ resolution = NoResolution
  /\ cacheProbe = NoProbe
  /\ timesheet = NoTimesheet

NextT == TransportRequest \/ TransportCallKw \/ TransportSetSession

SpecTransport == InitT /\ [][NextT]_vars

\* SpecDatabase: database resolution on any validated url and any listing
DatabaseUrls ==
  { "https://acme.odoo.com", "https://acme.odoo.com/web", "https://acme.dev.odoo.com",
    "https://my.team.odoo.com", "https://dev.odoo.com", "http://erp.example.com",
    "https://odoo.com", "https://acmeodoo.com" }

DatabaseListings ==
  { JNull, JFalse, JArr(<<>>), JArr(<<"acme">>), JArr(<<"main">>),
    JArr(<<"prod", "acme-test">>), JArr(<<"acme-test", "acme">>), JArr(<<"prod", "stage">>),
    JArr(<<"prod", "stage", "my.team">>), JArr(<<"dev1", "erp">>) }

DatabaseAnswers ==
  { NetworkFailure,
    HttpResponse(403, "Forbidden", JNull, TRUE, JUndef, JArr(<<"acme">>)),
    HttpResponse(200, "OK", JNull, TRUE, ServerErrorPlain, JArr(<<"acme">>)) }
  \cup { Ok200(JNull, l) : l \in DatabaseListings }

InitD ==
  /\ InitMain
  /\ InitTransport
  /\ \E url \in DatabaseUrls, resp \in DatabaseAnswers :
       resolution = [url |-> url, resp |-> resp, dbName |-> "", done |-> FALSE]
  /\ cacheProbe = NoProbe
  /\ timesheet = NoTimesheet

ResolveDatabase ==
  /\ ~resolution.done
  /\ resolution' = [resolution EXCEPT !.dbName = ExtractDatabaseName(resolution.url, resolution.resp),
                                      !.done = TRUE]
  /\ UNCHANGED <<mainVars, transportVars, cacheProbe, timesheet>>

NextD == ResolveDatabase

SpecDatabase == InitD /\ [][NextD]_vars

\* a session as login() saves it
StoredSession ==
  JObj([sessionId |-> "s1", baseUrl |-> "https://acme.odoo.com", userId |-> JNum(7),
        companyId |-> JNum(1), employeeId |-> JNum(5), employeeName |-> "Ann E",
        username |-> "ann@acme", cookies |-> <<"session_id=c1">>])

LoggedIn == [k \in StorageKeys |-> IF k = SESSION THEN JSONstringify(StoredSession) ELSE NoItem]

StatusStep(p) ==
  \/ AttendanceStartCached(p)
  \/ AttendanceGetClient(p)
  \/ AttendancePrimary(p)
  \/ AttendanceFallback(p)
  \/ AttendanceCache(p)

LogoutStep(p) ==
  \/ LogoutStart(p)
  \/ LogoutDestroy(p)
  \/ LogoutRemoveSession(p)
  \/ LogoutRemoveUserInfo(p)
  \/ LogoutRemoveAttendance(p)
  \/ LogoutRemoveTimer(p)

\* SpecWork: one caller at a time asks for the attendance status, toggles
\* it and starts timers, logged in or not, while both caches come to expire
WorkStep(p) ==
  \/ StatusStep(p)
  \/ AttendanceStartFresh(p)
  \/ ToggleStart(p)
  \/ TogglePrimary(p)
  \/ ToggleCache(p)
  \/ ToggleStatus1(p)
  \/ ToggleManual(p)
  \/ ToggleStatus2(p)
  \/ StartTimerStart(p)
  \/ StartTimerAction(p)
  \/ StartTimerLookup(p)
  \/ StartTimerCache(p)

InitW ==
  /\ storage \in {LoggedIn, [k \in StorageKeys |-> NoItem]}
  /\ now = 0
  /\ call = [p \in Callers |-> Idle]
  /\ InitTransport
  /\ resolution = NoResolution
  /\ cacheProbe = NoProbe
  /\ timesheet = NoTimesheet

NextW == TickLate \/ \E p \in SeqCallers : WorkStep(p)

SpecWork == InitW /\ [][NextW]_vars

\* SpecTimer: one caller at a time works with the timesheet timer, logged in
\* or not, while the timer cache comes to expire
NamesStep(p) ==
  \/ GetProjectsGetClient(p)
  \/ GetProjectsSearch(p)
  \/ GetTasksGetClient(p)
  \/ GetTasksSearch(p)

StartTimerStep(p) ==
  \/ StartTimerStart(p)
  \/ StartTimerAction(p)
  \/ StartTimerLookup(p)
  \/ StartTimerCache(p)

\* the steps of a getRunningTimer call under way
RunningTimerGoesOn(p) ==
  \/ GetRunningTimerGetClient(p)
  \/ GetRunningTimerLookup(p)
  \/ GetRunningTimerClear(p)
  \/ GetRunningTimerRead(p)
  \/ GetRunningTimerProjects(p)
  \/ GetRunningTimerTasks(p)
  \/ GetRunningTimerCache(p)

RunningTimerStep(p) ==
  \/ GetRunningTimerStart(p)
  \/ GetRunningTimerStartFresh(p)
  \/ RunningTimerGoesOn(p)

AssignGoesOn(p) ==
  \/ AssignOnchangeProject(p)
  \/ AssignOnchangeTask(p)
  \/ AssignSave(p)
  \/ AssignProjects(p)
  \/ AssignTasks(p)
  \/ AssignCache(p)

AssignStep(p) == AssignStart(p) \/ AssignGoesOn(p)

UpdateGoesOn(p) ==
  \/ UpdateWrite(p)
  \/ UpdateProjects(p)
  \/ UpdateTasks(p)
  \/ UpdateCache(p)

UpdateStep(p) == UpdateStart(p) \/ UpdateGoesOn(p)

StopGoesOn(p) ==
  \/ StopAction(p)
  \/ StopClear(p)
  \/ StopRead(p)
  \/ CancelUnlink(p)
  \/ CancelClear(p)

StopStep(p) == StopStart(p) \/ CancelStart(p) \/ StopGoesOn(p)

TimerStep(p) ==
  \/ NamesStep(p)
  \/ StartTimerStep(p)
  \/ RunningTimerStep(p)
  \/ DetailsStart(p)
  \/ DetailsCreate(p)
  \/ DetailsAction(p)
  \/ DetailsRead(p)
  \/ DetailsProjects(p)
  \/ DetailsTasks(p)
  \/ DetailsCache(p)

NextTm == Tick \/ \E p \in SeqCallers : TimerStep(p)

SpecTimer == InitW /\ [][NextTm]_vars

\* SpecEdit: one caller at a time assigns details to the timer, updates it,
\* stops it and cancels it, starting with the timer cache empty or as
\* getRunningTimer and startTimer leave it
CachedTimers ==
  { TimerState(JNum(42), JNum(3), JNum(9), JStr("review"), OdooStamp(1, 5, 8, 0, 0)),
    TimerState(JNum(42), JNull, JNull, JNull, OdooStamp(1, 5, 8, 0, 0)),
    TimerState(JNum(43), JNull, JNull, JNull, IsoString(0)) }

InitE ==
  /\ storage \in {LoggedIn, [k \in StorageKeys |-> NoItem]}
                 \cup {WriteCache(LoggedIn, TIMER_CACHE, t, 0) : t \in CachedTimers}
  /\ now = 0
  /\ call = [p \in Callers |-> Idle]
  /\ InitTransport
  /\ resolution = NoResolution
  /\ cacheProbe = NoProbe
  /\ timesheet = NoTimesheet

EditStep(p) ==
  \/ NamesStep(p)
  \/ AssignStep(p)
  \/ UpdateStep(p)
  \/ StopStep(p)

NextE == Tick \/ \E p \in SeqCallers : EditStep(p)

SpecEdit == InitE /\ [][NextE]_vars

\* SpecRace: one caller fetches, updates or assigns the timer and then polls
\* getRunningTimer(true), while another stops or cancels the timer once, all
\* within one TTL window of the cached timer; their steps interleave at
\* every await
InitR ==
  /\ storage = WriteCache(LoggedIn, TIMER_CACHE,
                          TimerState(JNum(42), JNull, JNull, JNull,
                                     OdooStamp(1, 5, 8, 0, 0)), 0)
  /\ now = 0
  /\ call = [p \in Callers |-> Idle]
  /\ InitTransport
  /\ resolution = NoResolution
  /\ cacheProbe = NoProbe
  /\ timesheet = NoTimesheet

ReaderStep(p) ==
  \/ call[p].pc = "idle" /\ GetRunningTimerStartFresh(p)
  \/ call[p].pc = "idle" /\ UpdateStart(p)
  \/ call[p].pc = "idle" /\ AssignStart(p)
  \/ call[p].pc = "done" /\ GetRunningTimerStart(p)
  \/ NamesStep(p)
  \/ RunningTimerGoesOn(p)
  \/ UpdateGoesOn(p)
  \/ AssignGoesOn(p)

StopOnceStep(p) ==
  \/ call[p].pc = "idle" /\ StopStart(p)
  \/ call[p].pc = "idle" /\ CancelStart(p)
  \/ StopGoesOn(p)

NextR == ReaderStep("c1") \/ StopOnceStep("c2")

SpecRace == InitR /\ [][NextR]_vars

\* SpecDuel: two callers each make one updateTimer call on the cached timer;
\* their steps interleave at every await
DuelStep(p) ==
  \/ call[p].pc = "idle" /\ UpdateStart(p)
  \/ NamesStep(p)
  \/ UpdateGoesOn(p)

NextDuel == \E p \in Callers : DuelStep(p)

SpecDuel == InitR /\ [][NextDuel]_vars

\* SpecAge: the timer was fetched and cached at instant 0; one caller
\* updates it and assigns details to it, any number of times, while the
\* clock advances in steps of twenty seconds; then another caller asks
\* getRunningTimer(true) once
MaxAge == 40000

AgeTick ==
  /\ now + 20000 <= MaxAge
  /\ now' = now + 20000
  /\ UNCHANGED <<storage, call, transportVars, pureVars>>

EditorStep(p) ==
  \/ NamesStep(p)
  \/ UpdateStep(p)
  \/ AssignStep(p)

AskOnceStep(p) ==
  \/ call[p].pc = "idle" /\ GetRunningTimerStart(p)
  \/ NamesStep(p)
  \/ RunningTimerGoesOn(p)

NextAge ==
  \/ AgeTick
  \/ call["c2"].pc = "idle" /\ EditorStep("c1")
  \/ CanStart("c1") /\ AskOnceStep("c2")

SpecAge == InitR /\ [][NextAge]_vars

(***************************************************************************)
(* useAttendance and useTimesheet: the hooks through which the commands    *)
(* call the attendance and timer operations                                *)
(***************************************************************************)
\* the operation of caller p has thrown SessionExpiredError to its hook
\* function, whose catch block has not run yet
ExpiredInHook(p) ==
  /\ call[p].pc = "done" /\ "outer" \notin DOMAIN call[p]
  /\ call[p].op \in {"getAttendanceStatus", "toggleCheckInOut", "getRunningTimer",
                     "startTimer", "updateTimer", "stopTimer"}
  /\ ~call[p].result.ok
  /\ call[p].result.err.kind = "SessionExpiredError"
  /\ "caught" \notin DOMAIN call[p]

\* start, update and stop of useTimesheet go on to refresh(false) when their
\* operation returned
RefreshDue(p) ==
  /\ call[p].pc = "done" /\ "outer" \notin DOMAIN call[p]
  /\ call[p].op \in {"startTimer", "updateTimer", "stopTimer"}
  /\ call[p].result.ok

\* no hook function of caller p is under way
HookIdle(p) == CanStart(p) /\ ~ExpiredInHook(p) /\ ~RefreshDue(p)

\* the catch blocks of refresh (both hooks), toggle, update and stop:
\* await logout()
HookLogout(p) ==
  /\ ExpiredInHook(p)
  /\ call[p].op # "startTimer"
  /\ LogoutStart(p)

\* the catch block of start: a "Not Logged In" toast, and the error is thrown on
HookStartCatch(p) ==
  /\ ExpiredInHook(p)
  /\ call[p].op = "startTimer"
  /\ Becomes(p, call[p] @@ [caught |-> "Not Logged In"])
  /\ UNCHANGED <<storage, now>>

\* await refresh(false) after a start, update or stop that returned
HookRefresh(p) ==
  /\ RefreshDue(p)
  /\ GetRunningTimerStartFresh(p)

\* the hook functions a command may call
HookCall(p) ==
  \/ HookIdle(p) /\ AttendanceStartCached(p)
  \/ HookIdle(p) /\ AttendanceStartFresh(p)
  \/ HookIdle(p) /\ ToggleStart(p)
  \/ HookIdle(p) /\ GetRunningTimerStart(p)
  \/ HookIdle(p) /\ GetRunningTimerStartFresh(p)
  \/ HookIdle(p) /\ StartTimerStart(p)
  \/ HookIdle(p) /\ UpdateStart(p)
  \/ HookIdle(p) /\ StopStart(p)

\* what goes on by itself once a hook function was called: the awaited
\* calls answer or fail, and the code after each await runs
HookGoesOn(p) ==
  \/ AttendanceGetClient(p)
  \/ AttendancePrimary(p)
  \/ AttendanceFallback(p)
  \/ AttendanceCache(p)
  \/ TogglePrimary(p)
  \/ ToggleCache(p)
  \/ ToggleStatus1(p)
  \/ ToggleManual(p)
  \/ ToggleStatus2(p)
  \/ NamesStep(p)
  \/ RunningTimerGoesOn(p)
  \/ StartTimerAction(p)
  \/ StartTimerLookup(p)
  \/ StartTimerCache(p)
  \/ UpdateGoesOn(p)
  \/ StopAction(p)
  \/ StopClear(p)
  \/ StopRead(p)
  \/ HookLogout(p)
  \/ HookStartCatch(p)
  \/ HookRefresh(p)
  \/ LogoutDestroy(p)
  \/ LogoutRemoveSession(p)
  \/ LogoutRemoveUserInfo(p)
  \/ LogoutRemoveAttendance(p)
  \/ LogoutRemoveTimer(p)

\* SpecHook: a logged-in user's command calls the hook functions one after
\* another, with a running timer cached or not; whatever was awaited does
\* come back
InitH ==
  /\ storage \in {LoggedIn,
                  WriteCache(LoggedIn, TIMER_CACHE,
                             TimerState(JNum(42), JNull, JNull, JNull,
                                        OdooStamp(1, 5, 8, 0, 0)), 0)}
  /\ now = 0
  /\ call = [p \in Callers |-> Idle]
  /\ InitTransport
  /\ resolution = NoResolution
  /\ cacheProbe = NoProbe
  /\ timesheet = NoTimesheet

NextH == \E p \in SeqCallers : HookCall(p) \/ HookGoesOn(p)

\* where each caller's operation stands; every step of an operation moves it
Position == [p \in Callers |-> <<call[p].op, call[p].pc, DOMAIN call[p]>>]

SpecHook == InitH /\ [][NextH]_vars /\ WF_Position(\E p \in SeqCallers : HookGoesOn(p))

\* SpecConcurrent: after a login, one caller polls the attendance status
\* while another logs out; their steps interleave at every await
InitCc ==
  /\ storage = LoggedIn
  /\ now = 0
  /\ call = [p \in Callers |-> Idle]
  /\ InitTransport
  /\ resolution = NoResolution
  /\ cacheProbe = NoProbe
  /\ timesheet = NoTimesheet

NextCc == TickLate \/ StatusStep("c1") \/ LogoutStep("c2")

SpecConcurrent == InitCc /\ [][NextCc]_vars

\* SpecCache: the two caches read and written directly, over any stored
\* blob and any instant
CacheKeys == {ATTENDANCE_CACHE, TIMER_CACHE}

CacheTTL(key) == IF key = ATTENDANCE_CACHE THEN ATTENDANCE_CACHE_TTL ELSE TIMER_CACHE_TTL

Unparseable == [present |-> TRUE, parses |-> FALSE, val |-> JUndef]

\* what a cache key may hold at the start: nothing, text that is no JSON,
\* JSON that is no entry, and entries written at instant 0
CacheBlobs ==
  { NoItem, Unparseable, JSONstringify(JNull),
    JSONstringify(JObj([data |-> CheckedIn])),
    JSONstringify(JObj([timestamp |-> JNum(0)])),
    JSONstringify(JObj([data |-> CheckedIn, timestamp |-> JNum(0)])) }

\* the instants around the two expiry times of an entry written at 0
CacheInstants == {0, 29999, 30000, 59999, 60000}

\* the states the program writes to a cache
CachePayloads ==
  { CheckedIn, FromNarrow(NarrowCheckedOut), FromNarrow(JFalse), JNull, JUndef,
    TimerState(JNum(43), JNull, JNull, JNull, IsoString(0)) }

InitC ==
  /\ storage \in { [k \in StorageKeys |-> IF k = ATTENDANCE_CACHE THEN a
                                          ELSE IF k = TIMER_CACHE THEN t ELSE NoItem] :
                    a \in CacheBlobs, t \in CacheBlobs }
  /\ now \in CacheInstants
  /\ call = [p \in Callers |-> Idle]
  /\ InitTransport
  /\ resolution = NoResolution
  /\ cacheProbe = NoProbe
  /\ timesheet = NoTimesheet

\* getCachedAttendanceState() / getCachedTimerState()
CacheRead ==
  /\ \E key \in CacheKeys :
       cacheProbe' = [kind |-> "read", key |-> key, at |-> now, blob |-> storage[key],
                      result |-> ReadCache(storage, key, CacheTTL(key), now)]
  /\ UNCHANGED <<mainVars, transportVars, resolution, timesheet>>

\* cacheAttendanceState(state) / cacheTimerState(state)
CacheWrite ==
  /\ \E key \in CacheKeys, state \in CachePayloads :
       /\ storage' = WriteCache(storage, key, state, now)
       /\ cacheProbe' = [kind |-> "write", key |-> key, at |-> now, state |-> state]
  /\ UNCHANGED <<now, call, transportVars, resolution, timesheet>>

NextC == CacheRead \/ CacheWrite \/ Tick

SpecCache == InitC /\ [][NextC]_vars

(***************************************************************************)
(* The elapsed-time display of the timesheet command                       *)
(*                                                                         *)
(* Instants are milliseconds as Date.getTime() gives them, counted from    *)
(* 2026-03-08T00:00:00Z instead of 1970 so that they stay small; the code  *)
(* only ever subtracts them. A timestamp string is kept as the fields it   *)
(* spells: <<"odoo", y, m, d, h, mi, s>> is "YYYY-MM-DD HH:MM:SS",         *)
(* <<"local", ...>> the same with a "T", and IsoString(ms) what            *)
(* toISOString() prints, with milliseconds and a Z.                        *)
(***************************************************************************)
\* the clock stops here in the specification of the display
MaxClock == 2400

\* the number of get_server_time calls the display makes at most
MaxSyncs == 1

\* the time zones of the machine the command runs on: one without daylight
\* saving, and one that skips 02:00-03:00 local time on 2026-03-08
Zones == {"UTC", "America/New_York"}

\* days from 1970-01-01 to the civil date y-m-d (MakeDay of new Date)
DaysFromCivil(y, m, d) ==
  LET yy == IF m <= 2 THEN y - 1 ELSE y
      era == yy \div 400
      yoe == yy - era * 400
      mp == (m + 9) % 12
      doy == (153 * mp + 2) \div 5 + d - 1
      doe == yoe * 365 + yoe \div 4 - yoe \div 100 + doy
  IN  era * 146097 + doe - 719468

\* the milliseconds of the wall-clock reading a timestamp spells, read as UTC
WallMs(f) ==
  ((DaysFromCivil(f[2], f[3], f[4]) - DaysFromCivil(2026, 3, 8)) * 86400
     + f[5] * 3600 + f[6] * 60 + f[7]) * 1000

\* the instant at which the machine's clock shows a wall-clock reading: a
\* reading that daylight saving skips is taken with the offset before it
LocalToUtc(wall, zone) ==
  IF zone = "UTC" THEN wall
  ELSE IF wall < WallMs(<<"local", 2026, 3, 8, 3, 0, 0>>)
       THEN wall + 5 * 3600000
       ELSE wall + 4 * 3600000

\* str.replace(" ", "T")
ReplaceSpaceWithT(str) ==
  IF str.v[1] = "odoo" THEN [str EXCEPT !.v[1] = "local"] ELSE str

\* new Date(str).getTime(): a date-time without offset is local time, one
\* that ends in Z is UTC
DateParse(str, zone) ==
  IF str.v[1] = "iso" THEN str.v[2] ELSE LocalToUtc(WallMs(str.v), zone)

\* getElapsedSeconds(startTime, serverTime) on a machine in a time zone
GetElapsedSeconds(startTime, serverTime, zone) ==
  LET start == DateParse(ReplaceSpaceWithT(startTime), zone)
      nowDate == DateParse(ReplaceSpaceWithT(serverTime), zone)
  IN  (nowDate - start) \div 1000

\* timestamps the server sends: around the end of February, and around the
\* night in which New York's clocks go forward
OdooStamps ==
  { OdooStamp(2, 28, 23, 59, 59), OdooStamp(3, 1, 0, 0, 0), OdooStamp(3, 7, 23, 0, 0),
    OdooStamp(3, 8, 1, 59, 59), OdooStamp(3, 8, 2, 30, 0), OdooStamp(3, 8, 3, 0, 0) }

\* the start times a timer state carries: timer_start as the server sent it,
\* or the ISO string startTimer made
StartTimes == OdooStamps \cup {IsoString(-1234)}

\* what get_server_time may answer: a failure, a timestamp, or no string
ServerTimeResponses ==
  FailureResponses \cup { Ok200(JNull, r) : r \in OdooStamps \cup {JFalse} }

\* the command shows a running timer: the effect has set up both intervals
InitClock ==
  /\ storage \in {LoggedIn, [k \in StorageKeys |-> NoItem]}
  /\ now \in {400}
  /\ call = [p \in Callers |-> Idle]
  /\ InitTransport
  /\ resolution = NoResolution
  /\ cacheProbe = NoProbe
  /\ \E zone \in Zones, startTime \in StartTimes :
       timesheet = [pc |-> "ticking", zone |-> zone, startTime |-> startTime,
                    offset |-> 0, elapsedSeconds |-> 0, requests |-> 0,
                    last |-> "mount", serverTime |-> JNull, synced |-> FALSE,
                    syncAt |-> 0, syncElapsed |-> 0, tickAt |-> 0]

\* the machine's clock goes on
ClockAdvance ==
  /\ timesheet.pc # "unmounted"
  /\ \E d \in {250, 1000} : now + d <= MaxClock /\ now' = now + d
  /\ UNCHANGED <<storage, call, transportVars, resolution, cacheProbe, timesheet>>

\* syncWithServer up to the await: getServerTime takes the stored session and
\* sends get_server_time; without a session it throws and the sync is over
SyncWithServerStart ==
  /\ timesheet.pc = "ticking"
  /\ timesheet.requests < MaxSyncs
  /\ timesheet' = IF GetAuthenticatedClient(storage).ok
                  THEN [timesheet EXCEPT !.pc = "fetching", !.requests = @ + 1]
                  ELSE [timesheet EXCEPT !.last = "failed"]
  /\ UNCHANGED <<mainVars, transportVars, resolution, cacheProbe>>

\* the offset and the elapsed seconds syncWithServer sets for a server time
Synced(serverTime) ==
  LET serverDate == DateParse(ReplaceSpaceWithT(serverTime), timesheet.zone)
      localDate == now
      elapsed == GetElapsedSeconds(timesheet.startTime, serverTime, timesheet.zone)
  IN  [timesheet EXCEPT !.pc = "ticking", !.offset = serverDate - localDate,
                        !.elapsedSeconds = elapsed, !.last = "sync",
                        !.serverTime = serverTime, !.synced = TRUE,
                        !.syncAt = localDate, !.syncElapsed = elapsed]

\* the answer to get_server_time: a failed call makes getServerTime return
\* the local time as an ISO string, taken in this or the last millisecond; an
\* answer that is no string makes replace throw, which the sync catches
SyncWithServerAnswer ==
  /\ timesheet.pc = "fetching"
  /\ \E resp \in ServerTimeResponses, late \in {0, 1} :
       LET out == CallKwOutcome(resp)
           serverTime == IF out.ok THEN out.value ELSE IsoString(now - late)
       IN  timesheet' = IF serverTime.t = "string"
                        THEN Synced(serverTime)
                        ELSE [timesheet EXCEPT !.pc = "ticking", !.last = "failed"]
  /\ UNCHANGED <<mainVars, transportVars, resolution, cacheProbe>>

\* a tick that shows the local time since the start, without the offset
UpdateElapsedNoOffset ==
  /\ timesheet.pc # "unmounted"
  /\ LET startDate == DateParse(ReplaceSpaceWithT(timesheet.startTime), timesheet.zone)
         elapsed == (now - startDate) \div 1000
     IN  timesheet' = [timesheet EXCEPT !.elapsedSeconds = elapsed, !.last = "tick",
                                        !.tickAt = now]
  /\ UNCHANGED <<mainVars, transportVars, resolution, cacheProbe>>

\* updateElapsed, the callback of the display interval
UpdateElapsed ==
  /\ timesheet.pc # "unmounted"
  /\ LET startDate == DateParse(ReplaceSpaceWithT(timesheet.startTime), timesheet.zone)
         nowDate == now + timesheet.offset
         elapsed == (nowDate - startDate) \div 1000
     IN  timesheet' = [timesheet EXCEPT !.elapsedSeconds = elapsed, !.last = "tick",
                                        !.tickAt = now]
  /\ UNCHANGED <<mainVars, transportVars, resolution, cacheProbe>>

NextClock == ClockAdvance \/ SyncWithServerStart \/ SyncWithServerAnswer \/ UpdateElapsed

SpecClock == InitClock /\ [][NextClock]_vars

(***************************************************************************)
(* Properties                                                              *)
(***************************************************************************)
\* the answer carries a JSON-RPC body with a result and no error:
\* the call succeeded at the HTTP and protocol level
Answered(resp) ==
  resp.net /\ resp.status = 200 /\ resp.json /\ resp.error.t = "undefined"

\* the hostname with its ".odoo.com" (or ".dev.odoo.com") ending removed
SubdomainOf(hostname) ==
  LET Prefixes == { SubSeq(hostname, 1, n) : n \in 0..Len(hostname) }
  IN  IF \E s \in Prefixes : s \o ".dev.odoo.com" = hostname
      THEN CHOOSE s \in Prefixes : s \o ".dev.odoo.com" = hostname
      ELSE CHOOSE s \in Prefixes : s \o ".odoo.com" = hostname

\* the first listed database whose name starts with prefix, else the first
PreferredDatabase(listing, prefix) ==
  LET hits == { i \in 1..Len(listing) : StartsWith(listing[i], prefix) }
  IN  IF hits = {} THEN listing[1]
      ELSE listing[CHOOSE i \in hits : \A j \in hits : i <= j]

\* caller p reaches getAuthenticatedClient() in this step: it starts an
\* operation that opens with it, or resumes getAttendanceStatus after a
\* cache miss
ReachesClient(p) ==
  /\ call'[p] # call[p]
  /\ \/ CanStart(p) /\ call'[p].op \in {"getAuthenticatedClient", "startTimer"}
     \/ CanStart(p) /\ call'[p].op = "getAttendanceStatus" /\ ~call'[p].useCache
     \/ At(p, "getAttendanceStatus", "getClient")

\* C1: getAuthenticatedClient(), and every operation that reaches it,
\* raises SessionExpiredError without any network call when no session
\* record is stored, and otherwise holds a transport constructed from the
\* stored base URL, token and cookie list.
C1_AuthenticatedClient ==
  [][\A p \in Callers :
       ReachesClient(p) =>
         IF ~storage[SESSION].present
         THEN /\ call'[p].pc = "done"
              /\ call'[p].result = Raised(SessionExpiredError("No active session found"))
              /\ call'[p].calls = <<>>
         ELSE LET stored == storage[SESSION].val.v
              IN  /\ call'[p].client =
                       NewOdooClient(stored.baseUrl, JStr(stored.sessionId), stored.cookies)
                  /\ call'[p].calls = <<>>
                  /\ call'[p].pc = "done" => call'[p].result.ok]_vars

\* startTimer was called with no session stored and raised at once
C1_Witness ==
  \E p \in Callers :
    /\ At(p, "startTimer", "done")
    /\ ~storage[SESSION].present
    /\ call[p].result.err.kind = "SessionExpiredError"
    /\ call[p].result.err.message = "No active session found"
    /\ call[p].calls = <<>>

\* C2: after logout() returns, the session record and both cache entries
\* are absent whatever the destroy call did; logout() does not raise, and
\* it issues the destroy call only if a session was stored.
C2_LogoutClears ==
  \A p \in Callers :
    At(p, "logout", "done") =>
      /\ storage[SESSION] = NoItem
      /\ storage[ATTENDANCE_CACHE] = NoItem
      /\ storage[TIMER_CACHE] = NoItem
      /\ call[p].result.ok
      /\ IF SESSION \in call[p].hadKeys
         THEN /\ Len(call[p].calls) = 1
              /\ EndsWith(call[p].calls[1].url, "/web/session/destroy")
         ELSE call[p].calls = <<>>

\* logout has returned after a destroy call that failed with a protocol
\* error, and the session and both caches were stored when it began
C2_Witness ==
  \E p \in Callers :
    /\ At(p, "logout", "done")
    /\ {SESSION, ATTENDANCE_CACHE, TIMER_CACHE} \subseteq call[p].hadKeys
    /\ call[p].destroyOutcome.err.kind = "OdooApiError"
    /\ storage = [k \in StorageKeys |-> NoItem]

\* C3: hasActiveSession() returns true if and only if a record is stored
\* under the session key, and makes no network call.
C3_HasActiveSession ==
  \A p \in Callers :
    At(p, "hasActiveSession", "done") =>
      /\ call[p].result.ok
      /\ call[p].result.value = (IF storage[SESSION].present THEN JTrue ELSE JFalse)
      /\ call[p].calls = <<>>

\* hasActiveSession has answered true
C3_Witness ==
  \E p \in Callers :
    /\ At(p, "hasActiveSession", "done")
    /\ call[p].result.value = JTrue
    /\ storage[SESSION].present

\* C4: when login() returns a SessionInfo, that SessionInfo is what the
\* session key holds, and the session key is written only by a login whose
\* authenticate call and employee lookup have both completed.
C4_PersistBeforeReturn ==
  [][\A p \in Callers :
       /\ (call'[p].op = "login" /\ call'[p].pc = "done" /\ call'[p].result.ok) =>
            /\ storage'[SESSION] = JSONstringify(call'[p].result.value)
            /\ GetSession(storage') = call'[p].result.value
            /\ GetAuthenticatedClient(storage').ok
       /\ (storage'[SESSION] # storage[SESSION] /\ storage'[SESSION].present) =>
            \E q \in Callers :
              /\ At(q, "login", "save")
              /\ Len(call[q].calls) = 3
              /\ EndsWith(call[q].calls[2].url, "/web/session/authenticate")
              /\ EndsWith(call[q].calls[3].url, CallKwEndpoint)
              /\ storage'[SESSION].val = JObj(call[q].sessionInfo)
              /\ call'[q].pc = "done"
              /\ call'[q].result = Returned(JObj(call[q].sessionInfo))]_vars

\* login has returned a SessionInfo and the session key holds it
C4_Witness ==
  \E p \in Callers :
    /\ At(p, "login", "done")
    /\ call[p].result.ok
    /\ storage[SESSION].present
    /\ storage[SESSION].val = call[p].result.value

\* the message under a login failure at the credential exchange
UnderlyingMessage(authResp) ==
  LET out == RequestOutcome("/web/session/authenticate", authResp)
  IN  IF ~out.ok THEN out.err.message ELSE "Invalid username or password"

\* C5 as stated: every failure of login() is reported as a wrapped
\* "Login failed" error.
C5_Original ==
  \A p \in Callers :
    At(p, "login", "done") /\ ~call[p].result.ok =>
      StartsWith(call[p].result.err.message, "Login failed: ")

\* C5 as amended: a failure of the credential exchange is reported as
\* "Login failed: " followed by the underlying message; a URL that fails
\* validation is reported as "Invalid Odoo URL format", unwrapped and
\* before any network call; nothing else makes login fail.
C5_LoginFailures ==
  \A p \in Callers :
    At(p, "login", "done") /\ ~call[p].result.ok =>
      IF ~IsValidUrl(NormalizeUrl(call[p].baseUrl))
      THEN /\ call[p].result.err = PlainError("Invalid Odoo URL format")
           /\ call[p].calls = <<>>
      ELSE /\ Len(call[p].calls) = 2
           /\ EndsWith(call[p].calls[2].url, "/web/session/authenticate")
           /\ call[p].result.err =
                PlainError("Login failed: " \o UnderlyingMessage(call[p].authResp))

\* login has failed because the network was down at the authenticate call
C5_Witness ==
  \E p \in Callers :
    /\ At(p, "login", "done")
    /\ ~call[p].result.ok
    /\ call[p].calls # <<>>
    /\ call[p].authResp = NetworkFailure
    /\ call[p].result.err.message = "Login failed: Network error: fetch failed"

\* C6: when the authenticate endpoint answers successfully and the result
\* carries no user id (a result of false or null included), login() fails
\* with the invalid-credentials error.
C6_InvalidCredentials ==
  \A p \in Callers :
    ( /\ At(p, "login", "done")
      /\ "authResp" \in DOMAIN call[p]
      /\ Answered(call[p].authResp)
      /\ Falsy(Field(call[p].authResp.result, "uid")) ) =>
        /\ ~call[p].result.ok
        /\ call[p].result.err = PlainError("Login failed: Invalid username or password")

\* C7: once the credential exchange has succeeded login() succeeds,
\* whatever the employee lookup does: the saved SessionInfo has employeeId
\* 0 when the lookup fails or gives no record, and the id and name of the
\* record when it gives one.
C7_EmployeeLookup ==
  \A p \in Callers :
    At(p, "login", "done") =>
      IF call[p].result.ok
      THEN LET info == call[p].result.value.v
               resp == call[p].employeeResp
               found == Answered(resp) /\ resp.result.t = "array" /\ Len(resp.result.v) > 0
           IN  /\ storage[SESSION] = JSONstringify(JObj(info))
               /\ IF found
                  THEN /\ info.employeeId = resp.result.v[1].v.id
                       /\ info.employeeName = resp.result.v[1].v.name.v
                  ELSE info.employeeId = JNum(0)
      ELSE call[p].calls # <<>> =>
             ~( /\ Answered(call[p].authResp)
                /\ call[p].authResp.result.t = "object"
                /\ ~Falsy(Field(call[p].authResp.result, "uid")) )

\* login has returned although the employee lookup failed; the saved
\* session has employee id 0
C7_Witness ==
  \E p \in Callers :
    /\ At(p, "login", "done")
    /\ call[p].result.ok
    /\ call[p].employeeResp = NetworkFailure
    /\ storage[SESSION].present
    /\ storage[SESSION].val.v.employeeId = JNum(0)

C11_ErrorBody ==
  LET resp == lastCall.resp
      error == resp.error
      hasNested == /\ "data" \in DOMAIN error.v
                   /\ "message" \in DOMAIN error.v.data.v
  IN  ( /\ lastCall.made /\ resp.net /\ resp.status = 200 /\ resp.json
        /\ error.t = "object" ) =>
        /\ ~lastCall.outcome.ok
        /\ lastCall.outcome.err.kind = "OdooApiError"
        /\ lastCall.outcome.err.code = error.v.code
        /\ lastCall.outcome.err.message =
             (IF hasNested THEN error.v.data.v.message.v ELSE error.v.message.v)

\* the body {code: 200, message: "Odoo Server Error", data: {message:
\* "Access Denied"}} was answered and raised "Access Denied" with code 200
C11_Witness ==
  /\ lastCall.made
  /\ lastCall.resp.status = 200
  /\ lastCall.resp.error = ServerErrorWithData
  /\ lastCall.outcome.err = OdooApiError("Access Denied", JNum(200))

\* C12: a 2xx answer without error whose result is exactly false raises
\* SessionExpiredError on an endpoint under /web/session and on no other;
\* everywhere else, the model-call endpoint of callKw included, a false or
\* null result is returned to the caller as it is.
C12_FalseResult ==
  LET resp == lastCall.resp
      onSession == lastCall.endpoint = "/web/session/get_session_info"
  IN  lastCall.made /\ Answered(resp) =>
        IF resp.result = JFalse /\ onSession
        THEN lastCall.outcome = Raised(SessionExpiredError(DefaultExpiredMessage))
        ELSE lastCall.outcome = Returned(resp.result)

\* callKw was answered false and returned false
C12_Witness ==
  /\ lastCall.made
  /\ lastCall.endpoint = CallKwEndpoint
  /\ Answered(lastCall.resp)
  /\ lastCall.resp.result = JFalse
  /\ lastCall.outcome = Returned(JFalse)

\* C13: every failure of request() reaches the caller as an OdooApiError
\* or a SessionExpiredError: a typed error thrown inside the call keeps its
\* kind, message and code, a network failure or malformed body becomes an
\* OdooApiError whose message starts with "Network error: ", and a call
\* returns a value only when the answer was a clean one.
C13_TypedErrors ==
  LET resp == lastCall.resp
      out == lastCall.outcome
      inner == RequestTry(lastCall.endpoint, resp)
  IN  lastCall.made =>
        /\ out.ok => Answered(resp) /\ out.value = resp.result
        /\ ~out.ok => out.err.kind \in {"OdooApiError", "SessionExpiredError"}
        /\ (~resp.net \/ (resp.status = 200 /\ ~resp.json)) =>
             /\ ~out.ok
             /\ out.err.kind = "OdooApiError"
             /\ StartsWith(out.err.message, "Network error: ")
             /\ out.err.code = JUndef
        /\ (~inner.ok /\ inner.err.kind \in {"OdooApiError", "SessionExpiredError"}) =>
             out = inner
        /\ (resp.net /\ ~(resp.status = 200 /\ ~resp.json)) =>
             ~StartsWith(out.err.message, "Network error: ")

\* a session-expired error thrown inside the call reached the caller as it
\* was thrown
C13_Witness ==
  /\ lastCall.made
  /\ lastCall.resp.status = 401
  /\ RequestTry(lastCall.endpoint, lastCall.resp) =
       Raised(SessionExpiredError(DefaultExpiredMessage))
  /\ lastCall.outcome = Raised(SessionExpiredError(DefaultExpiredMessage))

\* the name of a tracked cookie: what stands before its first "="
CookieName(cookie) == BeforeFirst(cookie, "=")

\* the name=value pairs a Set-Cookie header value sets
CookiesSetBy(setCookie) ==
  IF setCookie = JStr(RotatedCookieHeader) THEN {"session_id=r2"}
  ELSE IF setCookie = JStr(ExpiresLastCookieHeader)
       THEN {"session_id=r3", "frontend_lang=en"}
  ELSE {}

\* C14: whatever the responses, the transport tracks at most one cookie per
\* name; after a response every cookie it set is tracked with the value it
\* set, and every tracked cookie it did not name is still tracked.
C14_CookieMerge ==
  [][envelopes' # envelopes =>
       LET old == transport.cookies
           new == transport'.cookies
           set == IF lastCall'.resp.net THEN CookiesSetBy(lastCall'.resp.setCookie) ELSE {}
       IN  /\ \A i, j \in 1..Len(new) :
                CookieName(new[i]) = CookieName(new[j]) => i = j
           /\ \A ck \in set : \E i \in 1..Len(new) : new[i] = ck
           /\ \A i \in 1..Len(old) :
                (\A ck \in set : CookieName(ck) # CookieName(old[i])) =>
                  \E j \in 1..Len(new) : new[j] = old[i]]_vars

\* reading any field of a gives what reading it of b gives
SameFields(a, b) ==
  /\ a.t = b.t
  /\ IF a.t = "object"
     THEN \A f \in DOMAIN a.v \cup DOMAIN b.v : Field(a, f) = Field(b, f)
     ELSE a = b

\* C15: a cache read gives the stored payload exactly when the blob parses
\* and now - timestamp is below the TTL of its cache (60000 ms attendance,
\* 30000 ms timer), and none otherwise; it leaves storage as it is; and a
\* read right after a write of the same key gives the written state.
C15_CacheRead ==
  [][(cacheProbe' # cacheProbe /\ cacheProbe'.kind = "read") =>
       LET r == cacheProbe'
           ttl == IF r.key = ATTENDANCE_CACHE THEN 60000 ELSE 30000
           fresh == /\ r.blob.present /\ r.blob.parses
                    /\ r.blob.val.t = "object"
                    /\ "timestamp" \in DOMAIN r.blob.val.v
                    /\ r.at - r.blob.val.v.timestamp.v < ttl
       IN  /\ storage' = storage
           /\ r.result = (IF fresh THEN Field(r.blob.val, "data") ELSE JNull)
           /\ ( /\ cacheProbe.kind = "write" /\ cacheProbe.key = r.key
                /\ cacheProbe.at = r.at ) =>
                SameFields(r.result, cacheProbe.state)]_vars

\* a timer entry written at 0 was read at 30000 and had expired
C15_Witness ==
  /\ cacheProbe.kind = "read"
  /\ cacheProbe.key = TIMER_CACHE
  /\ cacheProbe.at = 30000
  /\ cacheProbe.blob.present /\ cacheProbe.blob.parses
  /\ Field(cacheProbe.blob.val, "timestamp") = JNum(0)
  /\ cacheProbe.result = JNull

\* a state with an undefined field was written and read back at once
C15_RoundTripSeen ==
  /\ cacheProbe.kind = "read"
  /\ cacheProbe.key = ATTENDANCE_CACHE
  /\ cacheProbe.blob = WriteCache(storage, ATTENDANCE_CACHE, FromNarrow(JFalse),
                                  cacheProbe.at)[ATTENDANCE_CACHE]
  /\ cacheProbe.result.t = "object"
  /\ "attendance_state" \notin DOMAIN cacheProbe.result.v

\* the attendance cache holds an entry that parses, is younger than the TTL
\* and has a payload that is not empty
ValidAttendanceEntry ==
  LET raw == storage[ATTENDANCE_CACHE]
  IN  /\ raw.present /\ raw.parses
      /\ now - raw.val.v.timestamp.v < 60000
      /\ ~Falsy(Field(raw.val, "data"))

\* caller p starts getAttendanceStatus(true) in this step
StartsCached(p) ==
  /\ CanStart(p)
  /\ call'[p] # call[p]
  /\ call'[p].op = "getAttendanceStatus"
  /\ call'[p].useCache

\* C16 as stated: two getAttendanceStatus(true) in a row within the TTL
\* window issue at most one network call in total.
C16_Original ==
  \A p \in Callers :
    At(p, "getAttendanceStatus", "done") /\ call[p].useCache =>
      call[p].carried + Len(call[p].calls) <= 1

\* C16 as amended: getAttendanceStatus(true) that finds a valid, non-empty
\* entry returns it at once, with no network call, whether a session is
\* stored or not; otherwise it goes on to fetch, with one network call when
\* the primary endpoint gives a result and two when it fails. So a second
\* call within the TTL of a first one that fetched a state, that state
\* still being cached, adds no network call.
C16_CachedStatus ==
  [][\A p \in Callers :
       /\ StartsCached(p) =>
            IF ValidAttendanceEntry
            THEN /\ call'[p].pc = "done"
                 /\ call'[p].result = Returned(storage[ATTENDANCE_CACHE].val.v.data)
                 /\ call'[p].calls = <<>>
                 /\ storage' = storage
            ELSE call'[p].pc = "getClient"
       /\ ( /\ StartsCached(p)
            /\ At(p, "getAttendanceStatus", "done") /\ call[p].useCache
            /\ call[p].result.ok /\ ~Falsy(call[p].result.value)
            /\ call[p].calls # <<>>
            /\ now - call[p].startedAt < 60000
            /\ storage[ATTENDANCE_CACHE].present
            /\ Field(storage[ATTENDANCE_CACHE].val, "data") = call[p].result.value ) =>
              /\ call'[p].pc = "done"
              /\ call'[p].result = call[p].result
              /\ call'[p].carried + Len(call'[p].calls) = Len(call[p].calls)
       /\ (call'[p].op = "getAttendanceStatus" /\ call'[p].pc = "done"
            /\ call'[p].useCache) =>
              /\ Len(call'[p].calls) <= 2
              /\ Len(call'[p].calls) = 2 <=> "error" \in DOMAIN call'[p]
              /\ (call'[p].result.ok /\ Len(call'[p].calls) = 1) =>
                   Answered(call'[p].primaryResp)]_vars

\* a cached status was returned although no session is stored
C16_Witness ==
  \E p \in Callers :
    /\ At(p, "getAttendanceStatus", "done")
    /\ call[p].useCache
    /\ call[p].calls = <<>>
    /\ call[p].result.ok
    /\ call[p].result.value = CheckedIn
    /\ ~storage[SESSION].present
    /\ call[p].carried = 1

\* the error request() raises for an answer
ErrorOf(endpoint, resp) == RequestOutcome(endpoint, resp).err

\* C17: in getAttendanceStatus and toggleCheckInOut the fallback is tried
\* only once the primary call has failed, whatever the error; when the
\* fallback fails too, the caller gets the primary call's error; when the
\* attendance fallback succeeds, the state built from its answer has null
\* timestamps and an empty employee name, is cached and is returned.
C17_Fallback ==
  \A p \in Callers :
    LET c == call[p]
        statusEndpoint == "/hr_attendance/attendance_user_data"
    IN  /\ c.op = "getAttendanceStatus" /\ Len(c.calls) >= 1 =>
             /\ EndsWith(c.calls[1].url, statusEndpoint)
             /\ Len(c.calls) <= 2
             /\ (Len(c.calls) = 2 \/ c.pc = "fallback") =>
                  /\ ~RequestOutcome(statusEndpoint, c.primaryResp).ok
                  /\ c.error = ErrorOf(statusEndpoint, c.primaryResp)
             /\ Len(c.calls) = 2 => c.calls[2].method = "attendance_user_data"
             /\ (c.pc = "done" /\ ~c.result.ok) =>
                  /\ Len(c.calls) = 2
                  /\ c.result.err = ErrorOf(statusEndpoint, c.primaryResp)
             /\ (c.pc = "done" /\ c.result.ok /\ Len(c.calls) = 2) =>
                  LET narrow == c.fallbackResp.result
                      state == c.result.value
                  IN  /\ Answered(c.fallbackResp)
                      /\ Field(state, "attendance_state") = Field(narrow, "attendance_state")
                      /\ Field(state, "last_check_in") = JNull
                      /\ Field(state, "last_check_out") = JNull
                      /\ Field(state, "employee_name") = JStr("")
                      /\ SameFields(Field(storage[ATTENDANCE_CACHE].val, "data"), state)
        /\ c.op = "toggleCheckInOut" /\ Len(c.calls) >= 1 =>
             /\ EndsWith(c.calls[1].url, ToggleEndpoint)
             /\ (Len(c.calls) >= 2 \/ c.pc \in {"status1", "manual", "status2"}) =>
                  /\ ~RequestOutcome(ToggleEndpoint, c.primaryResp).ok
                  /\ c.error = ErrorOf(ToggleEndpoint, c.primaryResp)
             /\ (c.pc = "done" /\ ~c.result.ok) =>
                  c.result.err = ErrorOf(ToggleEndpoint, c.primaryResp)
        /\ ("outer" \in DOMAIN c) =>
             /\ ~RequestOutcome(ToggleEndpoint, c.outer.primaryResp).ok
             /\ c.outer.error = ErrorOf(ToggleEndpoint, c.outer.primaryResp)

\* the primary status call was refused as unauthorized, the fallback then
\* failed at the network, and the caller got the session-expired error
C17_Witness ==
  \E p \in Callers :
    /\ At(p, "getAttendanceStatus", "done")
    /\ "fallbackResp" \in DOMAIN call[p]
    /\ call[p].primaryResp.status = 401
    /\ call[p].fallbackResp = NetworkFailure
    /\ call[p].result = Raised(SessionExpiredError(DefaultExpiredMessage))

\* toggleCheckInOut raised its primary error after its fallback had got as
\* far as the second status fetch
C17_ToggleSeen ==
  \E p \in Callers :
    /\ At(p, "toggleCheckInOut", "done")
    /\ ~call[p].result.ok
    /\ Len(call[p].calls) >= 4
    /\ call[p].result.err.kind = "SessionExpiredError"

\* an envelope of the manual attendance action
IsManual(e) == "method" \in DOMAIN e /\ e.method = "attendance_manual"

\* calls[from..to] are the calls of one fresh status fetch: the status
\* endpoint, then at most its fallback
IsStatusFetch(calls, from, to) ==
  /\ to - from \in {0, 1}
  /\ EndsWith(calls[from].url, "/hr_attendance/attendance_user_data")
  /\ to = from + 1 => ( /\ "method" \in DOMAIN calls[to]
                        /\ calls[to].method = "attendance_user_data" )

\* C18: when toggleCheckInOut() has returned a state the attendance cache
\* holds that state, stamped during the call. On the primary path it is the
\* endpoint's result and the only network call; on the fallback path the
\* calls after the failed primary are a status fetch, one manual action and
\* a second status fetch, in that order, neither fetch served from the
\* cache. The operation itself writes the cache only on the primary path,
\* in the step that returns.
C18_ToggleCaches ==
  [][\A p \in Callers :
       LET c == call'[p]
           entry == storage'[ATTENDANCE_CACHE]
       IN  /\ (c.op = "toggleCheckInOut" /\ c.pc = "done" /\ c.result.ok) =>
                /\ entry.present /\ entry.parses
                /\ SameFields(Field(entry.val, "data"), c.result.value)
                /\ entry.val.v.timestamp.v >= c.startedAt
                /\ entry.val.v.timestamp.v <= now'
                /\ IF Len(c.calls) = 1
                   THEN /\ Answered(c.primaryResp)
                        /\ c.result.value = c.primaryResp.result
                        /\ EndsWith(c.calls[1].url, ToggleEndpoint)
                   ELSE /\ ~RequestOutcome(ToggleEndpoint, c.primaryResp).ok
                        /\ \E m \in 3..(Len(c.calls) - 1) :
                             /\ IsManual(c.calls[m])
                             /\ \A i \in 1..Len(c.calls) : IsManual(c.calls[i]) => i = m
                             /\ IsStatusFetch(c.calls, 2, m - 1)
                             /\ IsStatusFetch(c.calls, m + 1, Len(c.calls))
           /\ (call[p].op = "toggleCheckInOut" /\ storage' # storage) =>
                /\ c.pc = "done" /\ c.result.ok
                /\ Len(c.calls) = 1
                /\ call[p].pc = "cache"
           /\ (c.op = "toggleCheckInOut" /\ c.pc = "done" /\ ~c.result.ok
                /\ call[p].op = "toggleCheckInOut" /\ call[p] # c) =>
                storage' = storage]_vars

\* toggleCheckInOut has returned on its fallback path, both status fetches
\* having gone to the network although the cache held a valid entry
C18_Witness ==
  \E p \in Callers :
    /\ At(p, "toggleCheckInOut", "done")
    /\ call[p].result.ok
    /\ Len(call[p].calls) = 6
    /\ IsManual(call[p].calls[4])
    /\ SameFields(Field(storage[ATTENDANCE_CACHE].val, "data"), call[p].result.value)

\* x is neither null nor undefined
HasValue(x) == x.t \notin {"null", "undefined"}

\* C19: every TimerState in the timer cache, and every one returned by
\* startTimer or getRunningTimer, has a timer id and a start time that are
\* not null
C19_TimerStates ==
  /\ LET entry == storage[TIMER_CACHE]
     IN  (entry.present /\ entry.parses /\ Field(entry.val, "data").t = "object") =>
           /\ HasValue(Field(Field(entry.val, "data"), "timerId"))
           /\ HasValue(Field(Field(entry.val, "data"), "startTime"))
  /\ \A p \in Callers :
       ( /\ call[p].op \in {"startTimer", "getRunningTimer"}
         /\ call[p].pc = "done"
         /\ call[p].result.ok
         /\ call[p].result.value.t = "object" ) =>
           /\ HasValue(Field(call[p].result.value, "timerId"))
           /\ HasValue(Field(call[p].result.value, "startTime"))

\* the start action answered a bare id or an object containing an id
GaveId(result) ==
  \/ result.t = "number" /\ result.v # 0
  \/ result.t = "object" /\ "id" \in DOMAIN result.v

\* C20: when the start action answers a bare numeric id or an object
\* containing an id, startTimer() makes no further network call, takes the
\* instant of the answer as start time, caches a TimerState with that id and
\* start time and null project, task, names and description, and returns
\* {timerId, startTime} with the cached values
C20_StartTimerWithId ==
  [][\A p \in Callers :
       LET c == call'[p]
           gaveId == /\ c.op = "startTimer"
                     /\ "actionResp" \in DOMAIN c
                     /\ CallKwOutcome(c.actionResp).ok
                     /\ GaveId(c.actionResp.result)
           id == IF c.actionResp.result.t = "number" THEN c.actionResp.result
                 ELSE c.actionResp.result.v.id
           data == Field(storage'[TIMER_CACHE].val, "data")
       IN  gaveId =>
             /\ Len(c.calls) = 1
             /\ c.pc \in {"cache", "done"}
             /\ call[p].pc = "action" =>
                  /\ c.pc = "cache"
                  /\ c.answer = JObj([timerId |-> id, startTime |-> IsoString(now)])
             /\ c.pc = "done" =>
                  /\ c.result = Returned(c.answer)
                  /\ Field(c.answer, "timerId") = id
                  /\ storage'[TIMER_CACHE].present /\ storage'[TIMER_CACHE].parses
                  /\ data = TimerState(id, JNull, JNull, JNull, Field(c.answer, "startTime"))
                  /\ Field(data, "timerId") = Field(c.result.value, "timerId")
                  /\ Field(data, "startTime") = Field(c.result.value, "startTime")]_vars

\* startTimer has returned after an action that answered an object with an id
C20_Witness ==
  \E p \in Callers :
    /\ At(p, "startTimer", "done")
    /\ call[p].result.ok
    /\ call[p].actionResp.result = JObj([id |-> JNum(43)])
    /\ Field(Field(storage[TIMER_CACHE].val, "data"), "timerId") = JNum(43)

\* startTimer has returned after an action that answered a bare id
C20_BareIdSeen ==
  \E p \in Callers :
    /\ At(p, "startTimer", "done")
    /\ call[p].result.ok
    /\ call[p].actionResp.result = JNum(43)

\* the number of calls of one method in a call log
CountOf(calls, method) ==
  Cardinality({i \in 1..Len(calls) : "method" \in DOMAIN calls[i] /\ calls[i].method = method})

\* C21: when the start action answers false or null, startTimer() makes
\* exactly one running-timer lookup. A lookup answer without an id raises
\* the "no running timer found" error and the timer cache stays as it was;
\* an answer with an id is cached and returned with the instant of the answer
\* minus the reported elapsed minutes as start time.
C21_StartTimerLookup ==
  [][\A p \in Callers :
       LET c == call'[p]
           noId == /\ c.op = "startTimer"
                   /\ "actionResp" \in DOMAIN c
                   /\ CallKwOutcome(c.actionResp).ok
                   /\ c.actionResp.result.t \in {"false", "null"}
           looked == CallKwOutcome(c.lookupResp).value
           minutes == IF "start" \in DOMAIN looked.v THEN looked.v.start.v ELSE 0
           data == Field(storage'[TIMER_CACHE].val, "data")
       IN  /\ (c.op = "startTimer" /\ CountOf(c.calls, "get_running_timer") > 0) => noId
           /\ noId =>
                /\ CountOf(c.calls, "get_running_timer") = (IF c.pc = "lookup" THEN 0 ELSE 1)
                /\ Len(c.calls) = (IF c.pc = "lookup" THEN 1 ELSE 2)
                /\ (c.pc # "lookup" /\ CallKwOutcome(c.lookupResp).ok) =>
                     IF looked.t = "object" /\ "id" \in DOMAIN looked.v
                     THEN /\ c.pc \in {"cache", "done"}
                          /\ call[p].pc = "lookup" =>
                               c.answer = JObj([timerId |-> looked.v.id,
                                                startTime |-> IsoString(now - minutes * 60000)])
                          /\ c.pc = "done" =>
                               /\ c.result = Returned(c.answer)
                               /\ Field(c.answer, "timerId") = looked.v.id
                               /\ Field(data, "timerId") = looked.v.id
                               /\ Field(data, "startTime") = Field(c.answer, "startTime")
                     ELSE /\ c.pc = "done"
                          /\ c.result = Raised(PlainError(
                               "Timer action succeeded but no running timer found. Please try again."))
                          /\ storage' = storage
           /\ (call[p].op = "startTimer" /\ storage' # storage) =>
                (c.pc = "done" /\ c.result.ok)]_vars

\* startTimer has returned timer 42 with a start time five minutes before
\* the instant of the lookup, after a start action that answered false
C21_Witness ==
  \E p \in Callers :
    /\ At(p, "startTimer", "done")
    /\ call[p].result.ok
    /\ call[p].actionResp.result = JFalse
    /\ call[p].lookupResp.result = JObj([id |-> JNum(42), start |-> JNum(5)])
    /\ call[p].result.value = JObj([timerId |-> JNum(42),
                                    startTime |-> IsoString(call[p].stamp - 300000)])
    /\ call[p].stamp > 0

\* startTimer has raised after a lookup that found no timer
C21_NoTimerSeen ==
  \E p \in Callers :
    /\ At(p, "startTimer", "done")
    /\ ~call[p].result.ok
    /\ "lookupResp" \in DOMAIN call[p]
    /\ call[p].lookupResp.result = JObj([step_timer |-> JNum(15)])

\* all network calls of that operation so far, in order
FullLog(p) ==
  IF "outer" \in DOMAIN call[p] THEN call[p].outer.calls \o call[p].calls ELSE call[p].calls

\* the methods of a call log
MethodsOf(calls) == [i \in 1..Len(calls) |-> calls[i].method]

IsPrefix(s, t) == Len(s) <= Len(t) /\ s = SubSeq(t, 1, Len(s))

\* the name a list of {id, name} gives for an id: that of the pair with the
\* id if there is one and it is not empty
ListedName(list, id, name) ==
  IF \E i \in 1..Len(list.v) : list.v[i].v.id = id
  THEN \E i \in 1..Len(list.v) : list.v[i].v.id = id /\ list.v[i].v.name = name
  ELSE name = JNull

\* C22: startTimerWithDetails calls create, the start action, the read of
\* timer_start, the project list and the task list in this order, each only
\* after the one before succeeded; when it has returned, all five were made,
\* the start time returned and cached is the value the read gave, and the
\* cached state has the given project and task ids with the names the lists
\* give for them
C22_DetailsOrder ==
  \A p \in Callers :
    LET c == TopOp(p)
        log == FullLog(p)
        data == Field(storage[TIMER_CACHE].val, "data")
        read == c.readResp.result.v[1].v.timer_start
    IN  c.op = "startTimerWithDetails" =>
          /\ IsPrefix(MethodsOf(log), <<"create", "action_timer_start", "read",
                                        "project.project/name_search",
                                        "project.task/name_search">>)
          /\ \A i \in 1..(Len(log) - 1) : log[i].ok
          /\ (c.pc = "done" /\ c.result.ok) =>
                /\ Len(log) = 5 /\ log[5].ok
                /\ c.result.value = JObj([timerId |-> c.timerId, startTime |-> read])
                /\ storage[TIMER_CACHE].present /\ storage[TIMER_CACHE].parses
                /\ Field(data, "timerId") = c.timerId
                /\ Field(data, "startTime") = read
                /\ Field(data, "projectId") = c.projectId
                /\ Field(data, "taskId") = c.taskId
                /\ Field(data, "description") = OrNull(c.description)
                /\ ListedName(c.projects, c.projectId, Field(data, "projectName"))
                /\ ListedName(c.tasks, c.taskId, Field(data, "taskName"))

\* startTimerWithDetails has returned the start time read from the server,
\* later than that instant on the local clock, with both names resolved
C22_Witness ==
  \E p \in Callers :
    /\ At(p, "startTimerWithDetails", "done")
    /\ call[p].result.ok
    /\ call[p].result.value = JObj([timerId |-> JNum(44),
                                    startTime |-> OdooStamp(1, 5, 8, 0, 0)])
    /\ call[p].stamp > 0
    /\ Field(Field(storage[TIMER_CACHE].val, "data"), "projectName") = JStr("Website")
    /\ Field(Field(storage[TIMER_CACHE].val, "data"), "taskName") = JStr("Design")

\* the item an operation saw in the timer cache was a valid entry for the
\* timer it was called with
ValidFor(seen, timerId) ==
  /\ seen.entry.present /\ seen.entry.parses
  /\ Field(seen.entry.val, "timestamp").t = "number"
  /\ seen.at - Field(seen.entry.val, "timestamp").v < TIMER_CACHE_TTL
  /\ Field(Field(seen.entry.val, "data"), "timerId") = timerId

\* C23: assignTimerDetails calls onchange for the project, onchange for the
\* task and web_save with the task id and the description if one was given,
\* in this order. It goes on to the name lists and rewrites the timer cache
\* only when the cache held a valid entry of the same timer after the save:
\* then the entry gets the new ids, the names the lists give and the
\* description, and keeps its timer id and start time. Otherwise the cache
\* stays as it was and the call returns without error.
C23_AssignDetails ==
  \A p \in Callers :
    LET c == TopOp(p)
        log == FullLog(p)
        old == Field(c.seen.entry.val, "data")
        data == Field(storage[TIMER_CACHE].val, "data")
    IN  c.op = "assignTimerDetails" =>
          /\ IsPrefix(MethodsOf(log), <<"onchange", "onchange", "web_save",
                                        "project.project/name_search",
                                        "project.task/name_search">>)
          /\ \A i \in 1..(Len(log) - 1) : log[i].ok
          /\ Len(log) >= 1 => Field(log[1].values, "project_id") = c.projectId
          /\ Len(log) >= 2 => log[2].values = JObj([task_id |-> c.taskId])
          /\ Len(log) >= 3 =>
                log[3].values = (IF c.description.t = "string"
                                 THEN JObj([task_id |-> c.taskId, name |-> c.description])
                                 ELSE JObj([task_id |-> c.taskId]))
          /\ Len(log) > 3 => ValidFor(c.seen, c.timerId)
          /\ ("seen" \in DOMAIN c /\ storage[TIMER_CACHE] # c.seen.entry) =>
                (ValidFor(c.seen, c.timerId) /\ c.pc = "done" /\ c.result.ok)
          /\ (c.pc = "done" /\ Len(log) >= 3 /\ log[3].ok /\ ~ValidFor(c.seen, c.timerId)) =>
                (c.result.ok /\ Len(log) = 3 /\ storage[TIMER_CACHE] = c.seen.entry)
          /\ (c.pc = "done" /\ c.result.ok /\ ValidFor(c.seen, c.timerId)) =>
                /\ Len(log) = 5
                /\ Field(data, "timerId") = c.timerId
                /\ Field(data, "startTime") = Field(old, "startTime")
                /\ Field(data, "projectId") = c.projectId
                /\ Field(data, "taskId") = c.taskId
                /\ Field(data, "description") = OrNull(c.description)
                /\ ListedName(c.projects, c.projectId, Field(data, "projectName"))
                /\ ListedName(c.tasks, c.taskId, Field(data, "taskName"))

\* assignTimerDetails has rewritten a valid entry of its timer that had
\* another project
C23_Witness ==
  \E p \in Callers :
    /\ At(p, "assignTimerDetails", "done")
    /\ call[p].result.ok
    /\ ValidFor(call[p].seen, call[p].timerId)
    /\ Field(Field(call[p].seen.entry.val, "data"), "projectId") = JNum(3)
    /\ Field(Field(storage[TIMER_CACHE].val, "data"), "projectName") = JStr("Intranet")
    /\ Field(Field(storage[TIMER_CACHE].val, "data"), "taskName") = JStr("Build")

\* assignTimerDetails has returned with the cache holding a valid entry of
\* another timer
C23_SkipSeen ==
  \E p \in Callers :
    /\ At(p, "assignTimerDetails", "done")
    /\ call[p].result.ok
    /\ call[p].seen.entry.present
    /\ Field(Field(call[p].seen.entry.val, "data"), "timerId") = JNum(43)
    /\ call[p].timerId = JNum(42)
    /\ call[p].seen.at = 0

\* a value was supplied for an optional argument
Supplied(x) == x.t # "undefined"

\* the fields of a cached timer that neither update touches
KeepsRest(data, old, c) ==
  /\ Field(data, "timerId") = Field(old, "timerId")
  /\ Field(data, "startTime") = Field(old, "startTime")
  /\ ~Supplied(c.projectId) =>
       /\ Field(data, "projectId") = Field(old, "projectId")
       /\ Field(data, "projectName") = Field(old, "projectName")
  /\ ~Supplied(c.taskId) =>
       /\ Field(data, "taskId") = Field(old, "taskId")
       /\ Field(data, "taskName") = Field(old, "taskName")
  /\ ~Supplied(c.description) => Field(data, "description") = Field(old, "description")

\* the write of updateTimer carries exactly the supplied fields, and the
\* running-timer lookup is never called
SparseWrite(c, log) ==
  /\ CountOf(log, "get_running_timer") = 0
  /\ Len(log) >= 1 =>
       /\ log[1].method = "write"
       /\ \A f \in {"project_id", "task_id", "name"} :
            LET given == IF f = "project_id" THEN c.projectId
                         ELSE IF f = "task_id" THEN c.taskId ELSE c.description
            IN  IF Supplied(given)
                THEN f \in DOMAIN log[1].values.v /\ log[1].values.v[f] = given
                ELSE f \notin DOMAIN log[1].values.v

\* C24 as stated: after a successful write, whenever the cache held a valid
\* entry of the same timer, that entry has exactly the supplied fields
\* changed, with the display name of each supplied project and task id
C24_Original ==
  \A p \in Callers :
    LET c == TopOp(p)
        log == FullLog(p)
        old == Field(c.seen.entry.val, "data")
        data == Field(storage[TIMER_CACHE].val, "data")
    IN  c.op = "updateTimer" =>
          /\ SparseWrite(c, log)
          /\ (c.pc = "done" /\ Len(log) >= 1 /\ log[1].ok /\ ValidFor(c.seen, c.timerId)) =>
                /\ KeepsRest(data, old, c)
                /\ Supplied(c.projectId) =>
                     /\ Field(data, "projectId") = c.projectId
                     /\ "projects" \in DOMAIN c
                     /\ ListedName(c.projects, c.projectId, Field(data, "projectName"))
                /\ Supplied(c.taskId) =>
                     /\ Field(data, "taskId") = c.taskId
                     /\ "tasks" \in DOMAIN c
                     /\ ListedName(c.tasks, c.taskId, Field(data, "taskName"))
                /\ Supplied(c.description) => Field(data, "description") = c.description

\* C24: updateTimer sends a write with exactly the supplied fields and never
\* calls the running-timer lookup. When the cache held a valid entry of the
\* same timer after the write and the call returns, the entry has the
\* supplied fields changed and the others kept; the project name comes from
\* the project list, the task name from the task list when the patched entry
\* has a project id and stays as it was when it has none. When a name list
\* fails the call raises and the entry stays as it was; so it does without a
\* valid entry of the same timer, and then the call returns after the write.
C24_UpdatePatch ==
  \A p \in Callers :
    LET c == TopOp(p)
        log == FullLog(p)
        old == Field(c.seen.entry.val, "data")
        data == Field(storage[TIMER_CACHE].val, "data")
        hasProject == ~Falsy(Field(data, "projectId"))
    IN  c.op = "updateTimer" =>
          /\ SparseWrite(c, log)
          /\ \A i \in 1..(Len(log) - 1) : log[i].ok
          /\ Len(log) > 1 => ValidFor(c.seen, c.timerId)
          /\ ("seen" \in DOMAIN c /\ storage[TIMER_CACHE] # c.seen.entry) =>
                (ValidFor(c.seen, c.timerId) /\ c.pc = "done" /\ c.result.ok)
          /\ (c.pc = "done" /\ Len(log) >= 1 /\ log[1].ok /\ ~ValidFor(c.seen, c.timerId)) =>
                (c.result.ok /\ Len(log) = 1 /\ storage[TIMER_CACHE] = c.seen.entry)
          /\ (c.pc = "done" /\ ~c.result.ok /\ "seen" \in DOMAIN c) =>
                storage[TIMER_CACHE] = c.seen.entry
          /\ (c.pc = "done" /\ c.result.ok /\ ValidFor(c.seen, c.timerId)) =>
                /\ KeepsRest(data, old, c)
                /\ MethodsOf(log) =
                     <<"write">>
                     \o (IF Supplied(c.projectId) THEN <<"project.project/name_search">> ELSE <<>>)
                     \o (IF Supplied(c.taskId) /\ hasProject
                         THEN <<"project.task/name_search">> ELSE <<>>)
                /\ Supplied(c.projectId) =>
                     /\ Field(data, "projectId") = c.projectId
                     /\ ListedName(c.projects, c.projectId, Field(data, "projectName"))
                /\ Supplied(c.taskId) =>
                     /\ Field(data, "taskId") = c.taskId
                     /\ IF hasProject
                        THEN ListedName(c.tasks, c.taskId, Field(data, "taskName"))
                        ELSE Field(data, "taskName") = Field(old, "taskName")
                /\ Supplied(c.description) => Field(data, "description") = c.description

\* updateTimer has patched project, task and description of a valid entry
\* of its timer and kept the start time
C24_Witness ==
  \E p \in Callers :
    /\ At(p, "updateTimer", "done")
    /\ call[p].result.ok
    /\ ValidFor(call[p].seen, call[p].timerId)
    /\ Supplied(call[p].projectId) /\ Supplied(call[p].taskId) /\ Supplied(call[p].description)
    /\ Field(Field(call[p].seen.entry.val, "data"), "projectId") = JNum(3)
    /\ LET data == Field(storage[TIMER_CACHE].val, "data")
       IN  /\ Field(data, "projectName") = JStr("Intranet")
           /\ Field(data, "taskName") = JStr("Build")
           /\ Field(data, "description") = JStr("notes")
           /\ Field(data, "startTime") = OdooStamp(1, 5, 8, 0, 0)

\* updateTimer has returned having set a task id on a valid entry without a
\* project id, with no task list asked for
C24_TaskUnresolvedSeen ==
  \E p \in Callers :
    /\ At(p, "updateTimer", "done")
    /\ call[p].result.ok
    /\ ValidFor(call[p].seen, call[p].timerId)
    /\ Supplied(call[p].taskId)
    /\ Len(call[p].calls) = 1
    /\ Field(Field(storage[TIMER_CACHE].val, "data"), "taskId") = call[p].taskId
    /\ Field(Field(storage[TIMER_CACHE].val, "data"), "taskName") = JNull

\* updateTimer has raised after a successful write because a name list
\* failed, the valid entry of its timer being as it was
C24_NameFailureSeen ==
  \E p \in Callers :
    /\ At(p, "updateTimer", "done")
    /\ ~call[p].result.ok
    /\ Len(call[p].calls) >= 2
    /\ call[p].calls[1].ok
    /\ ValidFor(call[p].seen, call[p].timerId)
    /\ storage[TIMER_CACHE] = call[p].seen.entry

\* C25: stopTimer calls the stop action with the save flag, then clears the
\* timer cache, then reads the unit amount back; it returns the hours times
\* 3600, or 0 when the read gives no record. Once the stop action has
\* succeeded the cache is cleared before the read and stays so also when the
\* read fails; when the stop action fails the cache is as it was.
C25_StopTimer ==
  \A p \in Callers :
    LET c == call[p]
        log == c.calls
        lines == c.readResp.result
    IN  c.op = "stopTimer" =>
          /\ IsPrefix(MethodsOf(log), <<"action_timer_stop", "read">>)
          /\ Len(log) >= 1 => log[1].values = JArr(<<c.timerId, JTrue>>)
          /\ Len(log) = 2 => log[1].ok
          /\ c.pc = "read" => Len(log) = 1
          /\ (Len(log) >= 1 /\ log[1].ok /\ c.pc \in {"read", "done"}) =>
                ~storage[TIMER_CACHE].present
          /\ (c.pc \in {"stop", "clear"} \/ (Len(log) = 1 /\ ~log[1].ok)) =>
                storage[TIMER_CACHE] = c.seen.entry
          /\ (c.pc = "done" /\ c.result.ok) =>
                /\ Len(log) = 2 /\ log[2].ok
                /\ c.result.value =
                     JObj([duration |-> IF Len(lines.v) > 0
                                        THEN JNum(lines.v[1].v.unit_amount.v * 3600)
                                        ELSE JNum(0)])

\* stopTimer has raised at the read after a successful stop action, and the
\* entry the cache held is gone
C25_Witness ==
  \E p \in Callers :
    /\ At(p, "stopTimer", "done")
    /\ ~call[p].result.ok
    /\ Len(call[p].calls) = 2
    /\ call[p].calls[1].ok
    /\ call[p].seen.entry.present
    /\ ~storage[TIMER_CACHE].present

\* stopTimer has returned 7200 seconds for two hours, and 0 for no record
C25_DurationSeen ==
  /\ \E p \in Callers :
       /\ At(p, "stopTimer", "done")
       /\ call[p].result.ok
       /\ call[p].result.value \in {JObj([duration |-> JNum(7200)]), JObj([duration |-> JNum(0)])}
       /\ call[p].seen.entry.present

\* C26: once a stopTimer or cancelTimer call has succeeded, the first
\* getRunningTimer(useCache=true) a caller starts after it goes to the
\* network, whatever was in flight while the stop or cancel ran
C26_NoStaleHit ==
  [][\A p \in Callers :
       LET before == call[p]
           c == call'[p]
           startedBeforeStop ==
             \/ before.pc = "idle"
             \/ "epoch" \in DOMAIN before /\ before.epoch = 0
       IN  ( /\ CanStart(p)
             /\ c # before
             /\ c.op = "getRunningTimer" /\ c.useCache /\ c.calls = <<>>
             /\ StopsDone >= 1
             /\ startedBeforeStop ) =>
           c.pc = "getClient"]_vars

\* C27: a getRunningTimer call that reached the network never raises. When
\* the lookup answers without an id it removes the timer cache entry and
\* returns none; when the lookup, the read of timer_start or a name list
\* fails, with HTTP 401 or 403 or otherwise, it returns none.
C27_NeverRaises ==
  \A p \in Callers :
    LET c == TopOp(p)
        log == FullLog(p)
        looked == CallKwOutcome(c.lookupResp)
    IN  (c.op = "getRunningTimer" /\ c.pc = "done") =>
          /\ Len(log) >= 1 => c.result.ok
          /\ ~c.result.ok => c.result.err = SessionExpiredError("No active session found")
          /\ (\E i \in 1..Len(log) : ~log[i].ok) => c.result = Returned(JNull)
          /\ (Len(log) >= 1 /\ looked.ok
                /\ (looked.value.t # "object" \/ "id" \notin DOMAIN looked.value.v)) =>
                /\ c.result = Returned(JNull)
                /\ Len(log) = 1
                /\ ~storage[TIMER_CACHE].present

\* getRunningTimer has returned none after the project list failed
C27_Witness ==
  \E p \in Callers :
    /\ At(p, "getRunningTimer", "done")
    /\ Len(call[p].calls) = 3
    /\ ~call[p].calls[3].ok
    /\ call[p].calls[3].method = "project.project/name_search"
    /\ call[p].result = Returned(JNull)

\* getRunningTimer has returned none after the lookup failed with HTTP 403
C27_ForbiddenSeen ==
  \E p \in Callers :
    /\ At(p, "getRunningTimer", "done")
    /\ Len(call[p].calls) = 1
    /\ call[p].lookupResp.status = 403
    /\ call[p].result = Returned(JNull)

\* getRunningTimer has removed an expired entry after a lookup without an id
C27_ClearedSeen ==
  \E p \in Callers :
    /\ At(p, "getRunningTimer", "done")
    /\ call[p].seen.entry.present
    /\ ~storage[TIMER_CACHE].present
    /\ call[p].lookupResp.result = JObj([step_timer |-> JNum(15)])

\* the item a getRunningTimer call saw in the timer cache was a valid entry:
\* it parses, holds a state, and is younger than the timer TTL
ValidEntry(seen) ==
  /\ seen.entry.present /\ seen.entry.parses
  /\ Field(seen.entry.val, "timestamp").t = "number"
  /\ seen.at - Field(seen.entry.val, "timestamp").v < TIMER_CACHE_TTL
  /\ ~Falsy(Field(seen.entry.val, "data"))

C28_ExpiredSeen ==
  \E p \in Callers :
    /\ At(p, "getRunningTimer", "done")
    /\ call[p].useCache /\ call[p].seen.entry.present /\ ~ValidEntry(call[p].seen)
    /\ Len(call[p].calls) >= 2
    /\ call[p].result.ok /\ call[p].result.value # JNull
    /\ "start" \in DOMAIN call[p].lookupResp.result.v
    /\ Field(call[p].result.value, "startTime") = OdooStamp(1, 5, 8, 0, 0)

\* a call with useCache=false went to the network past a valid entry
C28_FreshSeen ==
  \E p \in Callers :
    /\ At(p, "getRunningTimer", "done")
    /\ ~call[p].useCache /\ ValidEntry(call[p].seen)
    /\ Len(call[p].calls) >= 1

\* the timestamp is in the server's format, whole seconds without a zone
IsOdooStamp(str) == str.t = "string" /\ str.v[1] = "odoo"

\* C29: for timestamps in the server's format, getElapsedSeconds(start, now)
\* is the floor of a thousandth of the milliseconds between the two readings,
\* across day and month boundaries, and negative when now is before start.
C29_ElapsedFloor ==
  ( /\ timesheet.pc # "unmounted" /\ timesheet.synced
    /\ IsOdooStamp(timesheet.startTime) /\ IsOdooStamp(timesheet.serverTime) ) =>
    timesheet.syncElapsed =
      (WallMs(timesheet.serverTime.v) - WallMs(timesheet.startTime.v)) \div 1000

\* the display after a sync and after a tick, as the claim words it; growth
\* says by how much a tick's value may exceed the whole seconds of local time
\* since the sync
Ticking(t, slack) ==
  LET startDate == DateParse(ReplaceSpaceWithT(t.startTime), t.zone)
      serverDate == DateParse(ReplaceSpaceWithT(t.serverTime), t.zone)
      whole == (t.tickAt - t.syncAt) \div 1000
  IN  /\ (t.synced /\ t.last = "sync") =>
            /\ t.offset = serverDate - t.syncAt
            /\ t.elapsedSeconds = GetElapsedSeconds(t.startTime, t.serverTime, t.zone)
            /\ t.elapsedSeconds = (t.syncAt + t.offset - startDate) \div 1000
      /\ t.last = "tick" => t.elapsedSeconds = (t.tickAt + t.offset - startDate) \div 1000
      /\ (t.synced /\ t.last = "tick") =>
            /\ t.offset = serverDate - t.syncAt
            /\ t.elapsedSeconds - t.syncElapsed >= whole
            /\ t.elapsedSeconds - t.syncElapsed <= whole + slack

\* what a step of the display may do: a tick sends nothing and, once synced,
\* never lowers the value shown
TickStep(slack) ==
  LET t == timesheet'
  IN  timesheet.pc # "unmounted" =>
        /\ Ticking(t, slack)
        /\ (t.last = "tick" /\ t.pc = timesheet.pc /\ t # timesheet) =>
              /\ t.requests = timesheet.requests
              /\ timesheet.synced => t.elapsedSeconds >= timesheet.elapsedSeconds

C30_ExtraSecondSeen ==
  /\ timesheet.pc # "unmounted"
  /\ timesheet.synced /\ timesheet.last = "tick"
  /\ timesheet.elapsedSeconds - timesheet.syncElapsed =
       (timesheet.tickAt - timesheet.syncAt) \div 1000 + 1

\* the server has answered a call of caller p's operation with HTTP 401 or
\* 403, as far as the operation keeps its answers
AuthenticationFailed(p) ==
  \/ \E f \in DOMAIN call[p] \cap {"primaryResp", "fallbackResp", "actionResp",
                                   "lookupResp", "readResp"} :
       call[p][f].status \in {401, 403}
  \/ /\ call[p].pc = "done"
     /\ "outer" \notin DOMAIN call[p]
     /\ call[p].op \in {"getAttendanceStatus", "toggleCheckInOut", "getRunningTimer",
                        "startTimer", "updateTimer", "stopTimer"}
     /\ call[p].calls # <<>>
     /\ ~call[p].result.ok
     /\ call[p].result.err = SessionExpiredError(DefaultExpiredMessage)

\* C31: whenever the server has answered a call of a hook operation with an
\* authentication failure, the stored session is eventually removed.
C31_ForcedLogout ==
  \A p \in SeqCallers : AuthenticationFailed(p) ~> ~storage[SESSION].present

\* C9: on one transport instance the n-th call sends envelope id n,
\* whether calls fail or succeed and whether made by request or callKw.
C9_EnvelopeIds ==
  /\ \A n \in 1..Len(envelopes) : envelopes[n] = n
  /\ transport.requestId = Len(envelopes) + 1

\* as many calls as the bound allows were made, the last one a failed callKw
C9_Witness ==
  /\ Len(envelopes) = MaxRequests
  /\ lastCall.made
  /\ lastCall.endpoint = CallKwEndpoint
  /\ ~lastCall.resp.net
  /\ ~lastCall.outcome.ok

\* C10: HTTP status 401 or 403 raises SessionExpiredError and any other
\* non-success status raises an OdooApiError whose code is the status,
\* whatever the body holds.
C10_HttpStatus ==
  LET resp == lastCall.resp
  IN  lastCall.made /\ resp.net /\ (resp.status < 200 \/ resp.status > 299) =>
        /\ ~lastCall.outcome.ok
        /\ IF resp.status \in {401, 403}
           THEN lastCall.outcome.err = SessionExpiredError(DefaultExpiredMessage)
           ELSE /\ lastCall.outcome.err.kind = "OdooApiError"
                /\ lastCall.outcome.err.code = JNum(resp.status)
                /\ lastCall.outcome.err.message =
                     "HTTP " \o ToString(resp.status) \o ": " \o resp.statusText

\* a 403 whose body holds an error field was answered to a model call
C10_Witness ==
  /\ lastCall.made
  /\ lastCall.endpoint = CallKwEndpoint
  /\ lastCall.resp.status = 403
  /\ lastCall.resp.error = ServerErrorWithData
  /\ lastCall.outcome.err.kind = "SessionExpiredError"

\* two updateTimer calls on the same timer that have both completed, each
\* with its write applied and the cache rewritten
BothUpdated ==
  \A p \in Callers :
    /\ call[p].op = "updateTimer" /\ call[p].pc = "done" /\ call[p].result.ok
    /\ call[p].timerId = JNum(42)
    /\ {"wrote", "cachedNo"} \subseteq DOMAIN call[p]

\* the value the later of the calls that supplied the field gave it, the
\* calls taken in the given order; the value from before when none did
LastSupplied(order, field, before) ==
  LET suppliers == {q \in Callers : call[q][field].t # "undefined"}
  IN  IF suppliers = {} THEN before
      ELSE LET last == CHOOSE q \in suppliers :
                         \A r \in suppliers : call[r][order] <= call[q][order]
           IN  call[last][field]

\* the record on the server after the logged writes, applied in their order
\* to a record without project, task or description
RemoteAfter(n) ==
  LET field == [project_id |-> "projectId", task_id |-> "taskId", name |-> "description"]
      Written(k, f) == {q \in Callers : call[q].wrote = k /\ call[q][field[f]].t # "undefined"}
      Value(k, f) == LET q == CHOOSE q \in Written(k, f) : TRUE
                     IN  Field(call[q].calls[1].values, f)
  IN  [f \in DOMAIN field |->
         IF n >= 2 /\ Written(2, f) # {} THEN Value(2, f)
         ELSE IF n >= 1 /\ Written(1, f) # {} THEN Value(1, f)
         ELSE JNull]

\* C32: when two concurrent updateTimer calls on the same timer have both
\* completed, every field of the remote record and of the cached entry has
\* the value supplied by the last call that wrote it (the remote writes and
\* the cache writes each taken in the order they were applied), and a field
\* neither call supplied keeps the value it had
C32_LastWriteWins ==
  LET data == Field(storage[TIMER_CACHE].val, "data")
      remote == RemoteAfter(2)
  IN  BothUpdated =>
        /\ remote.project_id = LastSupplied("wrote", "projectId", JNull)
        /\ remote.task_id = LastSupplied("wrote", "taskId", JNull)
        /\ remote.name = LastSupplied("wrote", "description", JNull)
        /\ Field(data, "projectId") = LastSupplied("cachedNo", "projectId", JNull)
        /\ Field(data, "taskId") = LastSupplied("cachedNo", "taskId", JNull)
        /\ Field(data, "description") = LastSupplied("cachedNo", "description", JNull)

\* no logout() is between its first step and its last
NoLogoutRunning == \A p \in Callers : call[p].op = "logout" => call[p].pc = "done"

\* C33: whenever no session record is stored (and no logout is still
\* removing items), neither the attendance cache nor the timer cache holds
\* an entry, also when a call that began before logout() gets its answer
\* after logout() has cleared the storage
C33_NoCacheWithoutSession ==
  (~storage[SESSION].present /\ NoLogoutRunning) =>
     (~storage[ATTENDANCE_CACHE].present /\ ~storage[TIMER_CACHE].present)

\* a step in which login() stores a session record over a different one
ReplacesSession ==
  /\ storage[SESSION].present /\ storage'[SESSION].present
  /\ storage'[SESSION] # storage[SESSION]

\* C34: a successful login() that replaces a stored session without a
\* logout() in between leaves no attendance or timer cache entry that
\* getAttendanceStatus(true) or getRunningTimer(true) would return, so that
\* every value served from the cache was fetched under the stored session
C34_LoginDropsCaches ==
  [][ReplacesSession =>
        /\ GetCachedAttendanceState(storage', now') = JNull
        /\ GetCachedTimerState(storage', now') = JNull]_vars

\* C35: getRunningTimer(true) never returns from the cache a timer id and
\* start time that were obtained from the server more than 30000 ms before,
\* also when updateTimer or assignTimerDetails have rewritten the entry in
\* between. In SpecAge the cached id and start time were obtained at
\* instant 0 and only the asking call itself can fetch them again.
C35_ServedWithinTTL ==
  LET c == call["c2"]
  IN  (/\ c.op = "getRunningTimer" /\ c.pc = "done"
       /\ c.calls = <<>> /\ c.result.ok /\ c.result.value # JNull) =>
         c.seen.at <= TIMER_CACHE_TTL

\* C36: once getRunningTimer(false) has returned none, the timer cache holds
\* no valid entry, so that getRunningTimer(true) called next returns none
\* too
C36_NoneLeavesNoEntry ==
  \A p \in SeqCallers :
    LET c == call[p]
    IN  (/\ c.op = "getRunningTimer" /\ c.pc = "done" /\ "outer" \notin DOMAIN c
         /\ ~c.useCache /\ c.result = Returned(JNull)) =>
           Falsy(GetCachedTimerState(storage, now))

\* C37: a login() call that raises leaves the storage as it was: no step of
\* a login call writes the storage, except the one that completes the call
\* with the SessionInfo
C37_FailedLoginKeepsStorage ==
  [][\A p \in Callers :
       (/\ call'[p] # call[p]
        /\ call'[p].op = "login"
        /\ ~(call'[p].pc = "done" /\ call'[p].result.ok)) => storage' = storage]_vars

C37_Witness ==
  \E p \in Callers :
    /\ At(p, "login", "done")
    /\ ~call[p].result.ok
    /\ Len(call[p].calls) = 2
    /\ storage[SESSION].present

\* C38: the stored session record is written only by login() and removed
\* only by logout(): no attendance or timesheet operation changes it, and
\* the cookies an operation's responses rotate stay in the client of that
\* operation
C38_SessionFrame ==
  [][storage'[SESSION] # storage[SESSION] =>
       \E p \in Callers :
         \/ /\ call[p].op = "login" /\ call[p].pc = "save"
            /\ call'[p].pc = "done" /\ call'[p].result.ok
            /\ storage'[SESSION].present
         \/ /\ call[p].op = "logout" /\ call[p].pc # "done"
            /\ ~storage'[SESSION].present]_vars

\* an attendance or timer operation has completed with cookies other than
\* the stored ones in its client
C38_Witness ==
  \E p \in Callers :
    /\ call[p].op \in {"getAttendanceStatus", "startTimer"}
    /\ call[p].pc = "done" /\ call[p].result.ok
    /\ call[p].calls # <<>>
    /\ storage[SESSION].present
    /\ call[p].client.cookies # Field(storage[SESSION].val, "cookies")

\* C39: startTimerWithDetails writes the timer cache only when all five
\* server calls have succeeded; a call that fails is the last one it makes
\* (nothing is sent to undo the earlier ones), the operation then raises,
\* and no step before that has written the storage
C39_AllOrNoCache ==
  [][\A p \in Callers :
       LET after == IF "outer" \in DOMAIN call'[p] THEN call'[p].outer ELSE call'[p]
           log == IF "outer" \in DOMAIN call'[p]
                  THEN call'[p].outer.calls \o call'[p].calls ELSE call'[p].calls
           succeeded == /\ after.pc = "done" /\ after.result.ok
                        /\ Len(log) = 5 /\ \A i \in 1..5 : log[i].ok
       IN  (call'[p] # call[p] /\ after.op = "startTimerWithDetails") =>
             /\ storage' # storage =>
                   /\ succeeded
                   /\ \A k \in StorageKeys \ {TIMER_CACHE} : storage'[k] = storage[k]
             /\ \A i \in 1..(Len(log) - 1) : log[i].ok
             /\ after.pc = "done" => (after.result.ok <=> succeeded)]_vars

\* the fourth call failed after the timer was created and started on the
\* server, and the entry of an earlier timer is still cached
C39_Witness ==
  \E p \in Callers :
    /\ At(p, "startTimerWithDetails", "done")
    /\ ~call[p].result.ok
    /\ Len(call[p].calls) = 4
    /\ storage[TIMER_CACHE].present
    /\ Field(Field(storage[TIMER_CACHE].val, "data"), "timerId") # call[p].timerId

\* C40: a step of updateTimer or assignTimerDetails that changes the timer
\* cache item rewrites an entry that is there, and leaves its timer id and
\* start time as they are: the two operations never create an entry
C40_EditsKeepTimer ==
  [][\A p \in Callers :
       (/\ call'[p] # call[p]
        /\ call[p].op \in {"updateTimer", "assignTimerDetails"}
        /\ storage'[TIMER_CACHE] # storage[TIMER_CACHE]) =>
          /\ storage[TIMER_CACHE].present /\ storage'[TIMER_CACHE].present
          /\ Field(Field(storage'[TIMER_CACHE].val, "data"), "timerId") =
               Field(Field(storage[TIMER_CACHE].val, "data"), "timerId")
          /\ Field(Field(storage'[TIMER_CACHE].val, "data"), "startTime") =
               Field(Field(storage[TIMER_CACHE].val, "data"), "startTime")]_vars

====
